---- MODULE Spec2Model ----
(***************************************************************************)
(* State-machine model of the graph core of ananke:                        *)
(*   Vertex / Graph (graph.py), SG (sg.py), ADMG (admg.py), IG (ig.py)     *)
(*   and OneLineID.__init__ (one_line.py).                                 *)
(*                                                                         *)
(* A graph object is a record holding the object's fields.  Every method   *)
(* is an operator from the object (and the arguments) to a record          *)
(*   [g |-> the object afterwards, err |-> "ok" or the exception raised]   *)
(* and follows the statements of the method one by one, so that an         *)
(* exception raised half-way leaves the effects of the statements before   *)
(* it.  Iteration over a Python set is an arbitrary order: wherever the    *)
(* order can change the outcome the operator returns the SET of outcomes.  *)
(***************************************************************************)
EXTENDS Integers, Sequences, FiniteSets, TLC

VARIABLES
    g,      \* the caller's graph object (fields of Graph / SG / ADMG)
    cls,    \* its class: "Graph", "SG", "ADMG"; "none" when no object exists
    last,   \* the last call: [op, args, err, ret, pre] (pre: g before the call)
    nops,   \* number of mutating calls made since construction
    nq      \* number of query calls made since construction

vars == <<g, cls, last, nops, nq>>

-----------------------------------------------------------------------------
(* Bounds and name universes                                               *)

\* mutator calls after construction explored by SpecGraph
MaxOps == 2
\* mutator calls after construction explored by SpecSG
MaxSGOps == 2
\* fix calls after construction explored by SpecADMG
MaxFixes == 1
\* query calls after construction explored by SpecADMG
MaxQueries == 1
\* longest list of vertices passed to fix
MaxFixLen == 2

\* vertex names of the small graphs; "x" is a name that is never a vertex
GraphNames == {"a", "b"}
Missing == "x"
Names == {"a", "b", "c"}

\* insertion order of the vertices dict (the order of the constructor's list)
VOrder == <<"a", "b", "c", "d", "x", "y">>

OK == "ok"

\* Python's None, and a value that is not None, as a 0/1-length sequence
None == <<>>
Some(v) == <<v>>
IsNone(o) == Len(o) = 0
Val(o) == o[1]

EmptyMap == [v \in {} |-> 0]

\* first name of S in dict order
RECURSIVE FirstFrom(_, _)
FirstFrom(S, i) == IF VOrder[i] \in S THEN VOrder[i] ELSE FirstFrom(S, i + 1)
First(S) == FirstFrom(S, 1)

-----------------------------------------------------------------------------
(* Vertex and Graph: construction and the six edge mutators                *)

\* Vertex.__init__ for every name, and the three empty edge sets
NewGraph(vertices) ==
    [ vertices  |-> vertices,
      fixed     |-> {},
      di_edges  |-> {},
      bi_edges  |-> {},
      ud_edges  |-> {},
      parents   |-> [v \in vertices |-> {}],
      children  |-> [v \in vertices |-> {}],
      siblings  |-> [v \in vertices |-> {}],
      neighbors |-> [v \in vertices |-> {}],
      _district_map |-> EmptyMap,
      _districts    |-> None,
      _block_map    |-> EmptyMap,
      _blocks       |-> None ]

Res(G, e) == [g |-> G, err |-> e]

\* Graph.add_diedge: the edge set is updated before the vertices are looked up
add_diedge(G, parent, child) ==
    LET G1 == [G EXCEPT !.di_edges = @ \cup {<<parent, child>>}]
    IN  IF parent \notin G.vertices \/ child \notin G.vertices
        THEN Res(G1, "KeyError")
        ELSE LET G2 == [G1 EXCEPT !.children[parent] = @ \cup {child}]
                 G3 == [G2 EXCEPT !.parents[child] = @ \cup {parent}]
             IN  Res(G3, OK)

\* Graph.delete_diedge: set.remove raises KeyError on a missing element
delete_diedge(G, parent, child) ==
    IF <<parent, child>> \notin G.di_edges THEN Res(G, "KeyError")
    ELSE
    LET G1 == [G EXCEPT !.di_edges = @ \ {<<parent, child>>}]
    IN  IF parent \notin G.vertices \/ child \notin G.vertices
        THEN Res(G1, "KeyError")
        ELSE IF child \notin G1.children[parent] THEN Res(G1, "KeyError")
        ELSE LET G2 == [G1 EXCEPT !.children[parent] = @ \ {child}]
             IN  IF parent \notin G2.parents[child] THEN Res(G2, "KeyError")
                 ELSE Res([G2 EXCEPT !.parents[child] = @ \ {parent}], OK)

\* Graph.add_biedge
Graph_add_biedge(G, sib1, sib2) ==
    LET G1 == [G EXCEPT !.bi_edges = @ \cup {<<sib1, sib2>>}]
    IN  IF sib1 \notin G.vertices \/ sib2 \notin G.vertices
        THEN Res(G1, "KeyError")
        ELSE LET G2 == [G1 EXCEPT !.siblings[sib1] = @ \cup {sib2}]
                 G3 == [G2 EXCEPT !.siblings[sib2] = @ \cup {sib1}]
             IN  Res(G3, OK)

\* Graph.delete_biedge: tries the stored orientation, then the other one
Graph_delete_biedge(G, sib1, sib2) ==
    IF <<sib1, sib2>> \notin G.bi_edges /\ <<sib2, sib1>> \notin G.bi_edges
    THEN Res(G, "KeyError")
    ELSE
    LET e  == IF <<sib1, sib2>> \in G.bi_edges THEN <<sib1, sib2>> ELSE <<sib2, sib1>>
        G1 == [G EXCEPT !.bi_edges = @ \ {e}]
    IN  IF sib1 \notin G.vertices \/ sib2 \notin G.vertices
        THEN Res(G1, "KeyError")
        ELSE IF sib2 \notin G1.siblings[sib1] THEN Res(G1, "KeyError")
        ELSE LET G2 == [G1 EXCEPT !.siblings[sib1] = @ \ {sib2}]
             IN  IF sib1 \notin G2.siblings[sib2] THEN Res(G2, "KeyError")
                 ELSE Res([G2 EXCEPT !.siblings[sib2] = @ \ {sib1}], OK)

\* Graph.has_biedge
has_biedge(G, sib1, sib2) ==
    <<sib1, sib2>> \in G.bi_edges \/ <<sib2, sib1>> \in G.bi_edges

\* Graph.add_udedge
Graph_add_udedge(G, neb1, neb2) ==
    LET G1 == [G EXCEPT !.ud_edges = @ \cup {<<neb1, neb2>>}]
    IN  IF neb1 \notin G.vertices \/ neb2 \notin G.vertices
        THEN Res(G1, "KeyError")
        ELSE LET G2 == [G1 EXCEPT !.neighbors[neb1] = @ \cup {neb2}]
                 G3 == [G2 EXCEPT !.neighbors[neb2] = @ \cup {neb1}]
             IN  Res(G3, OK)

\* Graph.delete_udedge
Graph_delete_udedge(G, neb1, neb2) ==
    IF <<neb1, neb2>> \notin G.ud_edges /\ <<neb2, neb1>> \notin G.ud_edges
    THEN Res(G, "KeyError")
    ELSE
    LET e  == IF <<neb1, neb2>> \in G.ud_edges THEN <<neb1, neb2>> ELSE <<neb2, neb1>>
        G1 == [G EXCEPT !.ud_edges = @ \ {e}]
    IN  IF neb1 \notin G.vertices \/ neb2 \notin G.vertices
        THEN Res(G1, "KeyError")
        ELSE IF neb2 \notin G1.neighbors[neb1] THEN Res(G1, "KeyError")
        ELSE LET G2 == [G1 EXCEPT !.neighbors[neb1] = @ \ {neb2}]
             IN  IF neb1 \notin G2.neighbors[neb2] THEN Res(G2, "KeyError")
                 ELSE Res([G2 EXCEPT !.neighbors[neb2] = @ \ {neb1}], OK)

\* a loop `for e in edges: Op(self, e[0], e[1])`, stopping at the first exception
RECURSIVE ForEdges(_, _, _)
ForEdges(Op(_, _, _), R, es) ==
    IF R.err # OK \/ es = {} THEN R
    ELSE LET e == CHOOSE e \in es : TRUE
         IN  ForEdges(Op, Op(R.g, e[1], e[2]), es \ {e})

\* Graph.__init__: vertices, then Graph.add_*edge for every given edge
Graph_init(vertices, di_edges, bi_edges, ud_edges) ==
    LET R1 == ForEdges(add_diedge, Res(NewGraph(vertices), OK), di_edges)
        R2 == ForEdges(Graph_add_biedge, R1, bi_edges)
    IN  ForEdges(Graph_add_udedge, R2, ud_edges)

\* Graph.parents / children / siblings / neighbors of a set of vertices
parents(G, vs)   == UNION {G.parents[v]   : v \in vs}
children(G, vs)  == UNION {G.children[v]  : v \in vs}
siblings(G, vs)  == UNION {G.siblings[v]  : v \in vs}
neighbors(G, vs) == UNION {G.neighbors[v] : v \in vs}

\* the stack loop shared by Graph.ancestors and Graph.descendants; the filter
\* `p not in ancestors` compares a Vertex with names and never holds, so every
\* parent (child) is pushed again: the set returned is the closure, reached only
\* when no directed cycle can be entered from the start vertices
RECURSIVE Closure(_, _, _)
Closure(idx, seen, stack) ==
    IF stack = {} THEN seen
    ELSE LET v == CHOOSE v \in stack : TRUE
             s == seen \cup {v}
         IN  Closure(idx, s, (stack \ {v}) \cup (idx[v] \ s))

\* the stack loop never empties: some vertex reachable from vs lies on a cycle
Diverges(idx, vs) ==
    \E v \in Closure(idx, {}, vs) : v \in Closure(idx, {}, idx[v])

\* Graph.ancestors
ancestors(G, vs) == Closure(G.parents, {}, vs)

\* Graph.descendants
descendants(G, vs) == Closure(G.children, {}, vs)

-----------------------------------------------------------------------------
(* SG: validity checks, districts, blocks, overridden mutators, fix        *)

Range(s) == {s[i] : i \in 1..Len(s)}

\* all orders in which a set can be iterated
RECURSIVE Perms(_)
Perms(S) ==
    IF S = {} THEN {<<>>}
    ELSE UNION {{<<x>> \o p : p \in Perms(S \ {x})} : x \in S}

NoVertex == "None"

\* SG._dfs_cycle: the possible return values, over the iteration orders of the
\* set children | neighbors - {prev_vertex} pushed on the stack
RECURSIVE _dfs_cycle_from(_, _, _, _, _, _)
_dfs_cycle_from(G, vertex, visit_stack, prev_vertex, partially_directed, visited) ==
    IF visit_stack = <<>> \/ Range(visit_stack) \subseteq visited THEN {FALSE}
    ELSE
    LET visited2 == visited \cup Range(visit_stack)
        v        == visit_stack[Len(visit_stack)]
        popped   == SubSeq(visit_stack, 1, Len(visit_stack) - 1)
        pd       == partially_directed \/ G.children[v] # {}
        pushed   == (G.children[v] \cup G.neighbors[v]) \ {prev_vertex}
    IN  UNION { LET st == popped \o p
                IN  IF vertex \in Range(st) /\ pd THEN {TRUE}
                    ELSE _dfs_cycle_from(G, vertex, st, v, pd, visited2)
              : p \in Perms(pushed) }

_dfs_cycle(G, vertex) ==
    _dfs_cycle_from(G, vertex, <<vertex>>, NoVertex, FALSE, {})

\* SG._acyclic: the possible return values
_acyclic(G) ==
    (IF \A v \in G.vertices : FALSE \in _dfs_cycle(G, v) THEN {TRUE} ELSE {})
    \cup (IF \E v \in G.vertices : TRUE \in _dfs_cycle(G, v) THEN {FALSE} ELSE {})

\* SG._segregated with `or` for `and`
_segregated_or(G) ==
    ~ \E vertex \in G.vertices :
        Cardinality(G.siblings[vertex]) > 0 \/ Cardinality(G.neighbors[vertex]) > 0

\* SG._segregated
_segregated(G) ==
    ~ \E vertex \in G.vertices :
        Cardinality(G.siblings[vertex]) > 0 /\ Cardinality(G.neighbors[vertex]) > 0

\* SG._dfs_district / SG._dfs_block: the vertices the stack loop assigns the new
\* id to, given the vertices already in the map
RECURSIVE _dfs_component(_, _, _, _)
_dfs_component(idx, mapped, seen, stack) ==
    IF stack = {} THEN seen
    ELSE LET v == CHOOSE v \in stack : TRUE
             s == seen \cup {v}
         IN  _dfs_component(idx, mapped, s, (stack \ {v}) \cup (idx[v] \ (mapped \cup s)))

\* the loop `for vertex in self.vertices.values()` of _calculate_districts and
\* _calculate_blocks, from position i of the dict order: the map vertex -> id
RECURSIVE _component_map(_, _, _, _, _)
_component_map(G, idx, i, map, counter) ==
    IF i > Len(VOrder) THEN map
    ELSE LET vertex == VOrder[i]
         IN  IF vertex \in G.vertices /\ vertex \notin DOMAIN map /\ vertex \notin G.fixed
             THEN LET comp == _dfs_component(idx, DOMAIN map, {}, {vertex})
                      map2 == [w \in DOMAIN map \cup comp |->
                                  IF w \in comp THEN counter ELSE map[w]]
                  IN  _component_map(G, idx, i + 1, map2, counter + 1)
             ELSE _component_map(G, idx, i + 1, map, counter)

\* the list of sets built from a map vertex -> id (ids start at 0, the list at 1)
_component_list(map) ==
    LET n == Cardinality({map[w] : w \in DOMAIN map})
    IN  [k \in 1..n |-> {w \in DOMAIN map : map[w] = k - 1}]

\* SG._calculate_districts
_calculate_districts(G) ==
    LET map == _component_map(G, G.siblings, 1, EmptyMap, 0)
    IN  [G EXCEPT !._district_map = map, !._districts = Some(_component_list(map))]

\* SG._calculate_blocks
_calculate_blocks(G) ==
    LET map == _component_map(G, G.neighbors, 1, EmptyMap, 0)
    IN  [G EXCEPT !._block_map = map, !._blocks = Some(_component_list(map))]

ValRes(v, e) == [val |-> v, err |-> e]

\* SG.district: self._districts[self._district_map[self.vertices[vertex]]]
district(G, vertex) ==
    IF vertex \notin G.vertices THEN ValRes({}, "KeyError")
    ELSE IF vertex \notin DOMAIN G._district_map THEN ValRes({}, "KeyError")
    ELSE IF IsNone(G._districts) THEN ValRes({}, "TypeError")
    ELSE ValRes(Val(G._districts)[G._district_map[vertex] + 1], OK)

\* SG.districts: iterates self._districts
districts(G) ==
    IF IsNone(G._districts) THEN ValRes(<<>>, "TypeError")
    ELSE ValRes(Val(G._districts), OK)

\* SG.blocks
blocks(G) ==
    IF IsNone(G._blocks) THEN ValRes(<<>>, "TypeError")
    ELSE ValRes(Val(G._blocks), OK)

\* the two assertions of SG.__init__ (lines 24-25) and their messages
NotSegregated == "AssertionError: TypeError: Graph is not segregated"
NotAcyclic == "AssertionError: TypeError: Graph is not acyclic"

\* SG.__init__: the possible outcomes (the acyclicity check depends on set order)
SG_init(vertices, di_edges, bi_edges, ud_edges) ==
    LET checks(R) ==
            IF R.err # OK THEN {R}
            ELSE IF ~ _segregated(R.g) THEN {Res(R.g, NotSegregated)}
            ELSE { IF ok THEN Res(_calculate_blocks(_calculate_districts(R.g)), OK)
                         ELSE Res(R.g, NotAcyclic)
                   : ok \in _acyclic(R.g) }
    IN  checks(Graph_init(vertices, di_edges, bi_edges, ud_edges))

\* ADMG.__init__
ADMG_init(vertices, di_edges, bi_edges) == SG_init(vertices, di_edges, bi_edges, {})

\* SG.add_biedge with recompute as given
SG_add_biedge(G, sib1, sib2, recompute) ==
    LET R == Graph_add_biedge(G, sib1, sib2)
    IN  IF R.err # OK \/ ~ recompute THEN R ELSE Res(_calculate_districts(R.g), OK)

\* SG.delete_biedge with recompute as given: line 263 calls super().add_biedge
SG_delete_biedge(G, sib1, sib2, recompute) ==
    LET R == Graph_add_biedge(G, sib1, sib2)
    IN  IF R.err # OK \/ ~ recompute THEN R ELSE Res(_calculate_districts(R.g), OK)

\* SG.add_udedge
SG_add_udedge(G, neb1, neb2, recompute) ==
    LET R == Graph_add_udedge(G, neb1, neb2)
    IN  IF R.err # OK \/ ~ recompute THEN R ELSE Res(_calculate_blocks(R.g), OK)

\* SG.delete_udedge
SG_delete_udedge(G, neb1, neb2, recompute) ==
    LET R == Graph_delete_udedge(G, neb1, neb2)
    IN  IF R.err # OK \/ ~ recompute THEN R ELSE Res(_calculate_blocks(R.g), OK)

\* self.delete_biedge(s, v, recompute=False) as fix calls it
fix_delete_biedge(G, s, v) == SG_delete_biedge(G, s, v, FALSE)

\* the part of the loop body that SG.fix and ADMG.fix share: mark v fixed,
\* delete the incoming directed edges, "delete" the bidirected edges
fix_vertex(G, v) ==
    IF v \notin G.vertices THEN Res(G, "KeyError")
    ELSE
    LET siblings_of(R2) ==
            IF R2.err # OK THEN R2
            ELSE ForEdges(fix_delete_biedge, R2, {<<s, v>> : s \in R2.g.siblings[v]})
        parents_of(G1) ==
            siblings_of(ForEdges(delete_diedge, Res(G1, OK),
                                 {<<p, v>> : p \in G1.parents[v]}))
    IN  parents_of([G EXCEPT !.fixed = @ \cup {v}])

\* the loop `for v in vertices` of SG.fix; `n.fixed` on a name (a str) raises
RECURSIVE SG_fix_loop(_, _, _)
SG_fix_loop(G, vs, i) ==
    IF i > Len(vs) THEN Res(G, OK)
    ELSE LET neighbors_of(R) ==
                 IF R.err # OK THEN R
                 ELSE IF R.g.neighbors[vs[i]] # {} THEN Res(R.g, "AttributeError")
                 ELSE SG_fix_loop(R.g, vs, i + 1)
         IN  neighbors_of(fix_vertex(G, vs[i]))

\* SG.fix
SG_fix(G, vs) ==
    LET recompute(R) ==
            IF R.err # OK THEN R
            ELSE Res(_calculate_blocks(_calculate_districts(R.g)), OK)
    IN  recompute(SG_fix_loop(G, vs, 1))

RECURSIVE ADMG_fix_loop(_, _, _)
ADMG_fix_loop(G, vs, i) ==
    IF i > Len(vs) THEN Res(G, OK)
    ELSE LET next(R) == IF R.err # OK THEN R ELSE ADMG_fix_loop(R.g, vs, i + 1)
         IN  next(fix_vertex(G, vs[i]))

\* ADMG.fix: line 144 stores the return value of _calculate_districts, None
ADMG_fix(G, vs) ==
    LET recompute(R) ==
            IF R.err # OK THEN R
            ELSE Res([_calculate_districts(R.g) EXCEPT !._districts = None], OK)
    IN  recompute(ADMG_fix_loop(G, vs, 1))

\* method resolution: Graph <- SG <- ADMG
add_biedge(c, G, sib1, sib2) ==
    IF c = "Graph" THEN Graph_add_biedge(G, sib1, sib2)
    ELSE SG_add_biedge(G, sib1, sib2, TRUE)

delete_biedge(c, G, sib1, sib2) ==
    IF c = "Graph" THEN Graph_delete_biedge(G, sib1, sib2)
    ELSE SG_delete_biedge(G, sib1, sib2, TRUE)

add_udedge(c, G, neb1, neb2) ==
    IF c = "Graph" THEN Graph_add_udedge(G, neb1, neb2)
    ELSE SG_add_udedge(G, neb1, neb2, TRUE)

delete_udedge(c, G, neb1, neb2) ==
    IF c = "Graph" THEN Graph_delete_udedge(G, neb1, neb2)
    ELSE SG_delete_udedge(G, neb1, neb2, TRUE)

fix(c, G, vs) == IF c = "ADMG" THEN ADMG_fix(G, vs) ELSE SG_fix(G, vs)

\* Graph.subgraph / ADMG.subgraph: the possible outcomes [g, err, cls]; the
\* fixed flags are copied after the constructor has computed the districts
SubRes(R, c) == [g |-> R.g, err |-> R.err, cls |-> c]

\* subgraph that does not copy the fixed flags
subgraph_unfixed(c, G, vs) ==
    LET di == {e \in G.di_edges : e[1] \in vs /\ e[2] \in vs}
        bi == {e \in G.bi_edges : e[1] \in vs /\ e[2] \in vs}
        ud == {e \in G.ud_edges : e[1] \in vs /\ e[2] \in vs}
        built == IF c = "ADMG" THEN ADMG_init(vs, di, bi)
                 ELSE {Graph_init(vs, di, bi, ud)}
        sub_cls == IF c = "ADMG" THEN "ADMG" ELSE "Graph"
    IN  { IF R.err # OK THEN SubRes(R, sub_cls)
          ELSE IF ~ (vs \subseteq G.vertices) THEN SubRes(Res(R.g, "KeyError"), sub_cls)
          ELSE SubRes(R, sub_cls)
        : R \in built }

subgraph(c, G, vs) ==
    LET di == {e \in G.di_edges : e[1] \in vs /\ e[2] \in vs}
        bi == {e \in G.bi_edges : e[1] \in vs /\ e[2] \in vs}
        ud == {e \in G.ud_edges : e[1] \in vs /\ e[2] \in vs}
        built == IF c = "ADMG" THEN ADMG_init(vs, di, bi)
                 ELSE {Graph_init(vs, di, bi, ud)}
        sub_cls == IF c = "ADMG" THEN "ADMG" ELSE "Graph"
    IN  { IF R.err # OK THEN SubRes(R, sub_cls)
          ELSE IF ~ (vs \subseteq G.vertices) THEN SubRes(Res(R.g, "KeyError"), sub_cls)
          ELSE SubRes(Res([R.g EXCEPT !.fixed = vs \cap G.fixed], OK), sub_cls)
        : R \in built }

-----------------------------------------------------------------------------
(* ADMG: fixable, reachable_closure; Graph.topological_sort                *)

\* G = self: the local name G is bound to the caller's object
deepcopy_alias(self) == [ref |-> "self", g |-> self]

\* G = copy.deepcopy(self): the local name G is bound to a new object
deepcopy(self) == [ref |-> "copy", g |-> self]

\* the caller's object once the object bound to G has become Gfinal
SelfAfter(self, cp, Gfinal) == IF cp.ref = "self" THEN Gfinal ELSE self

\* the test with `>= 1` in place of `== 1`: it passes for every vertex
fixability_check_any(G, v) ==
    IF v \notin G.vertices THEN [err |-> "KeyError", q |-> FALSE]
    ELSE IF Diverges(G.children, {v}) THEN [err |-> "Hang", q |-> FALSE]
    ELSE LET d == district(G, v)
         IN  IF d.err # OK THEN [err |-> d.err, q |-> FALSE]
             ELSE [err |-> OK, q |-> Cardinality(descendants(G, {v}) \cap d.val) >= 1]

\* the test len(G.descendants([v]).intersection(G.district(v))) == 1
fixability_check(G, v) ==
    IF v \notin G.vertices THEN [err |-> "KeyError", q |-> FALSE]
    ELSE IF Diverges(G.children, {v}) THEN [err |-> "Hang", q |-> FALSE]
    ELSE LET d == district(G, v)
         IN  IF d.err # OK THEN [err |-> d.err, q |-> FALSE]
             ELSE [err |-> OK, q |-> Cardinality(descendants(G, {v}) \cap d.val) = 1]

\* the vertices at which a pass `for v in remaining_vertices` can stop: the scan
\* skips the vertices that fail the test, so the first vertex that passes it or
\* raises, in the set's iteration order, ends the pass
pass_stops(G, remaining) ==
    {v \in remaining : fixability_check(G, v).err # OK \/ fixability_check(G, v).q}

FixableOut(G, e, ok, order) == [G |-> G, err |-> e, ok |-> ok, order |-> order]

\* the while loop of ADMG.fixable with a pass that gives up at the first
\* vertex it scans when that vertex fails the test
RECURSIVE fixable_loop_first_only(_, _, _)
fixable_loop_first_only(G, remaining_vertices, fixing_order) ==
    IF remaining_vertices = {} THEN {FixableOut(G, OK, TRUE, fixing_order)}
    ELSE UNION {
             LET step(chk, R) ==
                     IF chk.err # OK THEN {FixableOut(G, chk.err, FALSE, fixing_order)}
                     ELSE IF ~ chk.q THEN {FixableOut(G, OK, FALSE, fixing_order)}
                     ELSE IF R.err # OK
                     THEN {FixableOut(R.g, R.err, FALSE, fixing_order)}
                     ELSE fixable_loop_first_only(R.g, remaining_vertices \ {v},
                                                  Append(fixing_order, v))
             IN  step(fixability_check(G, v), ADMG_fix(G, <<v>>))
             : v \in remaining_vertices }

\* the while loop of ADMG.fixable: the possible outcomes
RECURSIVE fixable_loop(_, _, _)
fixable_loop(G, remaining_vertices, fixing_order) ==
    IF remaining_vertices = {} THEN {FixableOut(G, OK, TRUE, fixing_order)}
    ELSE LET stops == pass_stops(G, remaining_vertices)
         IN  IF stops = {} THEN {FixableOut(G, OK, FALSE, fixing_order)}
             ELSE UNION {
                 LET step(chk, R) ==
                         IF chk.err # OK THEN {FixableOut(G, chk.err, FALSE, fixing_order)}
                         ELSE IF R.err # OK
                         THEN {FixableOut(R.g, R.err, FALSE, fixing_order)}
                         ELSE fixable_loop(R.g, remaining_vertices \ {v},
                                           Append(fixing_order, v))
                 IN  step(fixability_check(G, v), ADMG_fix(G, <<v>>))
                 : v \in stops }

\* ADMG.fixable(vertices): outcomes [self, err, ok, order]
fixable(self, vertices) ==
    LET cp == deepcopy(self)
    IN  { [self |-> SelfAfter(self, cp, o.G), err |-> o.err, ok |-> o.ok, order |-> o.order]
          : o \in fixable_loop(cp.g, vertices, <<>>) }

ClosureOut(G, e, order) == [G |-> G, err |-> e, order |-> order]

\* the while loop of ADMG.reachable_closure: a pass that fixes nothing ends it
RECURSIVE reachable_closure_loop(_, _, _)
reachable_closure_loop(G, remaining_vertices, fixing_order) ==
    IF remaining_vertices = {} THEN {ClosureOut(G, OK, fixing_order)}
    ELSE LET stops == pass_stops(G, remaining_vertices)
         IN  IF stops = {} THEN {ClosureOut(G, OK, fixing_order)}
             ELSE UNION {
                 LET step(chk, R) ==
                         IF chk.err # OK THEN {ClosureOut(G, chk.err, fixing_order)}
                         ELSE IF R.err # OK THEN {ClosureOut(R.g, R.err, fixing_order)}
                         ELSE reachable_closure_loop(R.g, remaining_vertices \ {v},
                                                     Append(fixing_order, v))
                 IN  step(fixability_check(G, v), ADMG_fix(G, <<v>>))
                 : v \in stops }

\* ADMG.reachable_closure(vertices): outcomes [self, err, closure, order, G]
reachable_closure(self, vertices) ==
    LET remaining == (self.vertices \ vertices) \ self.fixed
        cp == deepcopy(self)
    IN  { [self |-> SelfAfter(self, cp, o.G), err |-> o.err,
           closure |-> o.G.vertices \ o.G.fixed, order |-> o.order, G |-> o.G]
          : o \in reachable_closure_loop(cp.g, remaining, <<>>) }

\* the vertices of S as a list in dict order
RECURSIVE InOrder(_, _)
InOrder(S, i) ==
    IF i > Len(VOrder) THEN <<>>
    ELSE (IF VOrder[i] \in S THEN <<VOrder[i]>> ELSE <<>>) \o InOrder(S, i + 1)

\* the loop `for c in children` with every child becoming a root at once,
\* whether or not it has another parent left
RECURSIVE topo_children_eager(_, _, _, _, _)
topo_children_eager(G, roots, r, cs, i) ==
    IF i > Len(cs) THEN [G |-> G, err |-> OK, roots |-> roots]
    ELSE LET R == delete_diedge(G, r, cs[i])
         IN  IF R.err # OK THEN [G |-> R.g, err |-> R.err, roots |-> roots]
             ELSE topo_children_eager(R.g, Append(roots, cs[i]), r, cs, i + 1)

\* the loop `for c in children` of topological_sort, children in the order cs
RECURSIVE topo_children(_, _, _, _, _)
topo_children(G, roots, r, cs, i) ==
    IF i > Len(cs) THEN [G |-> G, err |-> OK, roots |-> roots]
    ELSE LET R == delete_diedge(G, r, cs[i])
         IN  IF R.err # OK THEN [G |-> R.g, err |-> R.err, roots |-> roots]
             ELSE topo_children(R.g,
                     IF R.g.parents[cs[i]] = {} THEN Append(roots, cs[i]) ELSE roots,
                     r, cs, i + 1)

\* the loop `while roots` of topological_sort: the possible outcomes
RECURSIVE topo_loop(_, _, _)
topo_loop(G, roots, top_order) ==
    IF roots = <<>> THEN {[G |-> G, err |-> OK, order |-> top_order]}
    ELSE LET r == roots[Len(roots)]
             popped == SubSeq(roots, 1, Len(roots) - 1)
         IN  UNION {
               LET c == topo_children(G, popped, r, cs, 1)
               IN  IF c.err # OK THEN {[G |-> c.G, err |-> c.err, order |-> top_order]}
                   ELSE topo_loop(c.G, c.roots, Append(top_order, r))
               : cs \in Perms(G.children[r]) }

\* Graph.topological_sort: outcomes [self, err, order]
topological_sort(self) ==
    LET cp == deepcopy(self)
        roots == InOrder({v \in self.vertices : cp.g.parents[v] = {}}, 1)
    IN  { [self |-> SelfAfter(self, cp, o.G), err |-> o.err, order |-> o.order]
          : o \in topo_loop(cp.g, roots, <<>>) }

-----------------------------------------------------------------------------
(* IG: the intrinsic graph, whose vertices are frozensets of ADMG vertices *)

\* Graph.add_vertex: self.vertices[name] = Vertex(name)
add_vertex(G, name) ==
    LET vs == G.vertices \cup {name}
        fresh(idx) == [v \in vs |-> IF v = name THEN {} ELSE idx[v]]
    IN  [G EXCEPT !.vertices = vs,
                  !.parents = fresh(G.parents), !.children = fresh(G.children),
                  !.siblings = fresh(G.siblings), !.neighbors = fresh(G.neighbors)]

\* the fields IG.__init__ sets before its loop; keys lists the vertices dict's
\* keys in insertion order
NewIG(admg) ==
    [ gr |-> NewGraph({}), keys |-> <<>>, admg |-> admg,
      iset_cadmg_map |-> EmptyMap, iset_fixing_order_map |-> EmptyMap ]

\* IG.bidirected_connected
bidirected_connected(ig, s1, s2) ==
    \E x \in s1, y \in s2 : has_biedge(ig.admg, x, y)

ProperSubset(s, t) == s \subseteq t /\ s # t

\* the subset-relation step, shared by IG.__init__ and maintain_subset_relation
subset_edge(gr, i, s) ==
    IF ProperSubset(i, s) THEN add_diedge(gr, i, s).g
    ELSE IF ProperSubset(s, i) THEN add_diedge(gr, s, i).g
    ELSE gr

\* the loop `for i in self.vertices` of IG.__init__ (lines 40-48), from key k
RECURSIVE init_wire(_, _, _)
init_wire(ig, rc, k) ==
    IF k > Len(ig.keys) THEN ig
    ELSE LET i   == ig.keys[k]
             gr1 == subset_edge(ig.gr, i, rc)
             gr2 == IF ~ (i \in ancestors(gr1, {rc}) \/ rc \in ancestors(gr1, {i}))
                       /\ bidirected_connected(ig, i, rc)
                    THEN Graph_add_biedge(gr1, i, rc).g
                    ELSE gr1
         IN  init_wire([ig EXCEPT !.gr = gr2], rc, k + 1)

\* IG.maintain_subset_relation
RECURSIVE maintain_subset_relation(_, _, _)
maintain_subset_relation(ig, s, k) ==
    IF k > Len(ig.keys) THEN ig
    ELSE maintain_subset_relation(
             [ig EXCEPT !.gr = subset_edge(ig.gr, ig.keys[k], s)], s, k + 1)

\* the loop of IG.add_new_biedges, ancestors_s computed before it
RECURSIVE add_new_biedges_loop(_, _, _, _)
add_new_biedges_loop(ig, s, ancestors_s, k) ==
    IF k > Len(ig.keys) THEN ig
    ELSE LET i == ig.keys[k]
             gr1 == IF i \notin ancestors_s /\ bidirected_connected(ig, i, s)
                    THEN Graph_add_biedge(ig.gr, i, s).g
                    ELSE ig.gr
         IN  add_new_biedges_loop([ig EXCEPT !.gr = gr1], s, ancestors_s, k + 1)

\* IG.add_new_biedges
add_new_biedges(ig, s) == add_new_biedges_loop(ig, s, ancestors(ig.gr, {s}), 1)

\* insert_iset that records an empty fixing order
insert_iset_no_order(ig, rc, fixing_order, G) ==
    [ig EXCEPT !.gr = add_vertex(ig.gr, rc),
               !.keys = IF rc \in ig.gr.vertices THEN @ ELSE Append(@, rc),
               !.iset_cadmg_map = [t \in DOMAIN @ \cup {rc} |->
                                      IF t = rc THEN G ELSE @[t]],
               !.iset_fixing_order_map = [t \in DOMAIN @ \cup {rc} |->
                                      IF t = rc THEN <<>> ELSE @[t]]]

\* add_vertex(rc) and the two map entries (lines 35-37, 115-117)
insert_iset(ig, rc, fixing_order, G) ==
    [ig EXCEPT !.gr = add_vertex(ig.gr, rc),
               !.keys = IF rc \in ig.gr.vertices THEN @ ELSE Append(@, rc),
               !.iset_cadmg_map = [t \in DOMAIN @ \cup {rc} |->
                                      IF t = rc THEN G ELSE @[t]],
               !.iset_fixing_order_map = [t \in DOMAIN @ \cup {rc} |->
                                      IF t = rc THEN fixing_order ELSE @[t]]]

IGRes(ig, e) == [ig |-> ig, err |-> e]

\* the loop `for v in admg.vertices` of IG.__init__, vs the vertices in dict
\* order: the possible outcomes
RECURSIVE IG_init_loop(_, _, _)
IG_init_loop(ig, vs, k) ==
    IF k > Len(vs) THEN {IGRes(ig, OK)}
    ELSE IF vs[k] \in ig.admg.fixed THEN IG_init_loop(ig, vs, k + 1)
    ELSE UNION {
           IF o.err # OK THEN {IGRes([ig EXCEPT !.admg = o.self], o.err)}
           ELSE LET ig1 == insert_iset([ig EXCEPT !.admg = o.self], o.closure, o.order, o.G)
                IN  IG_init_loop(init_wire(ig1, o.closure, 1), vs, k + 1)
           : o \in reachable_closure(ig.admg, {vs[k]}) }

\* IG.__init__ whose loop leaves out the first vertex of the ADMG
IG_init_skip_first(admg) == IG_init_loop(NewIG(admg), InOrder(admg.vertices, 1), 2)

\* IG.__init__ whose loop visits only the last vertex of the ADMG
IG_init_last_only(admg) ==
    IG_init_loop(NewIG(admg), InOrder(admg.vertices, 1), Cardinality(admg.vertices))

\* IG.__init__
IG_init(admg) == IG_init_loop(NewIG(admg), InOrder(admg.vertices, 1), 1)

\* IG.merge that leaves the popped bidirected edge in the graph
merge_keep_edge(ig, s1, s2) ==
    { IF o.err # OK THEN IGRes([ig EXCEPT !.admg = o.self], o.err)
      ELSE LET D   == Res(ig.gr, OK)
               ig1 == [ig EXCEPT !.admg = o.self, !.gr = D.g]
               s3  == o.closure
           IN  IF D.err # OK THEN IGRes(ig1, D.err)
               ELSE IF s3 \in ig1.gr.vertices THEN IGRes(ig1, OK)
               ELSE IGRes(add_new_biedges(
                              maintain_subset_relation(
                                  insert_iset(ig1, s3, o.order, o.G), s3, 1), s3), OK)
      : o \in reachable_closure(ig.admg, s1 \cup s2) }

\* IG.merge: the possible outcomes
merge(ig, s1, s2) ==
    { IF o.err # OK THEN IGRes([ig EXCEPT !.admg = o.self], o.err)
      ELSE LET D   == Graph_delete_biedge(ig.gr, s1, s2)
               ig1 == [ig EXCEPT !.admg = o.self, !.gr = D.g]
               s3  == o.closure
           IN  IF D.err # OK THEN IGRes(ig1, D.err)
               ELSE IF s3 \in ig1.gr.vertices THEN IGRes(ig1, OK)
               ELSE IGRes(add_new_biedges(
                              maintain_subset_relation(
                                  insert_iset(ig1, s3, o.order, o.G), s3, 1), s3), OK)
      : o \in reachable_closure(ig.admg, s1 \cup s2) }

\* IG.get_intrinsic_sets: any remaining bidirected edge is popped next
RECURSIVE IG_get_intrinsic_sets(_)
IG_get_intrinsic_sets(ig) ==
    IF ig.gr.bi_edges = {} THEN {IGRes(ig, OK)}
    ELSE UNION { UNION { IF m.err # OK THEN {m} ELSE IG_get_intrinsic_sets(m.ig)
                         : m \in merge(ig, e[1], e[2]) }
                 : e \in ig.gr.bi_edges }

\* ADMG.get_intrinsic_sets: outcomes [self, err, sets, orders]
get_intrinsic_sets(self) ==
    LET cp == deepcopy(self)
    IN  { [self |-> SelfAfter(self, cp, r.ig.admg), err |-> r.err,
           sets |-> IF r.err = OK THEN r.ig.gr.vertices ELSE {},
           orders |-> IF r.err = OK THEN r.ig.iset_fixing_order_map ELSE EmptyMap]
          : r \in UNION { IF i.err # OK THEN {i} ELSE IG_get_intrinsic_sets(i.ig)
                          : i \in IG_init(cp.g) } }

-----------------------------------------------------------------------------
(* ADMG.maximal_arid_projection and OneLineID.__init__                     *)

\* itertools.combinations(vertices, 2) over the dict order
Pairs(vs) ==
    LET n == Len(vs)
        idx == {<<i, j>> \in (1..n) \X (1..n) : i < j}
        pos(p) == Cardinality({q \in idx : q[1] < p[1] \/ (q[1] = p[1] /\ q[2] <= p[2])})
    IN  [k \in 1..Cardinality(idx) |->
            LET p == CHOOSE p \in idx : pos(p) = k IN <<vs[p[1]], vs[p[2]]>>]

\* `for district in cadmg.districts` (admg.py line 302): sg.py defines districts
\* as a method, and iterating a bound method raises TypeError
districts_attribute(G) == ValRes(<<>>, "TypeError")

MapOut(self, e, di, bi) == [self |-> self, err |-> e, di_edges |-> di, bi_edges |-> bi]

\* lines 300-304: the joint reachable closure of {a, b} and the district test
arid_biedge(self, a, b, di, bi) ==
    { IF o.err # OK THEN MapOut(o.self, o.err, di, bi)
      ELSE LET ds == districts_attribute(o.G)
           IN  IF ds.err # OK THEN MapOut(o.self, ds.err, di, bi)
               ELSE MapOut(o.self, OK, di,
                        IF \E k \in 1..Len(ds.val) : o.closure \subseteq ds.val[k]
                        THEN bi \cup {<<a, b>>} ELSE bi)
      : o \in reachable_closure(self, {a, b}) }

\* the loop over the vertex pairs of maximal_arid_projection, from pair k; cache
\* is the dictionary reachable_closures
RECURSIVE arid_loop(_, _, _, _, _, _)
arid_loop(self, pairs, k, cache, di, bi) ==
    IF k > Len(pairs) THEN {MapOut(self, OK, di, bi)}
    ELSE
    LET a == pairs[k][1]
        b == pairs[k][2]
        u == IF a \in ancestors(self, {b}) THEN a
             ELSE IF b \in ancestors(self, {a}) THEN b ELSE NoVertex
        v == IF u = a THEN b ELSE a
        next(m) == IF m.err # OK THEN {m}
                   ELSE arid_loop(m.self, pairs, k + 1, cache, m.di_edges, m.bi_edges)
    IN  IF u = NoVertex
        THEN UNION {next(m) : m \in arid_biedge(self, a, b, di, bi)}
        ELSE UNION {
               IF o.err # OK THEN {MapOut(o.self, o.err, di, bi)}
               ELSE LET cache2 == [w \in DOMAIN cache \cup {v} |->
                                      IF w \in DOMAIN cache THEN cache[w] ELSE o.closure]
                    IN  IF u \in parents(o.self, cache2[v])
                        THEN arid_loop(o.self, pairs, k + 1, cache2, di \cup {<<u, v>>}, bi)
                        ELSE UNION { IF m.err # OK THEN {m}
                                     ELSE arid_loop(m.self, pairs, k + 1, cache2,
                                                    m.di_edges, m.bi_edges)
                                     : m \in arid_biedge(o.self, a, b, di, bi) }
               : o \in IF v \in DOMAIN cache
                       THEN {[self |-> self, err |-> OK, closure |-> cache[v]]}
                       ELSE {[self |-> r.self, err |-> r.err, closure |-> r.closure]
                             : r \in reachable_closure(self, {v})} }

\* ADMG.maximal_arid_projection: outcomes [self, err, ret], ret the new ADMG
maximal_arid_projection(self) ==
    IF \E v \in self.vertices : Diverges(self.parents, {v})
    THEN {[self |-> self, err |-> "Hang", ret |-> NewGraph({})]}
    ELSE UNION {
           IF m.err # OK THEN {[self |-> m.self, err |-> m.err, ret |-> NewGraph({})]}
           ELSE {[self |-> m.self, err |-> R.err, ret |-> R.g]
                 : R \in ADMG_init(m.self.vertices, m.di_edges, m.bi_edges)}
           : m \in arid_loop(self, Pairs(InOrder(self.vertices, 1)), 1, EmptyMap, {}, {}) }

NoOneLine ==
    [treatments |-> <<>>, outcomes |-> <<>>, swig |-> NewGraph({}), ystar |-> {},
     Gystar |-> NewGraph({}), fixing_orders |-> EmptyMap]

\* OneLineID.__init__(graph, treatments, outcomes), graph of class c:
\* outcomes [self, err, ret], self the graph afterwards, ret the new object
OneLineID_init(c, graph, treatments, outcomes) ==
    LET build(F, after, ystar) ==
            { [self |-> after, err |-> S.err,
               ret |-> IF S.err # OK THEN NoOneLine
                       ELSE [treatments |-> treatments, outcomes |-> outcomes,
                             swig |-> F.g, ystar |-> ystar, Gystar |-> S.g,
                             fixing_orders |-> EmptyMap]]
              : S \in subgraph(c, after, ystar) }
        fixed_swig(F, after) ==
            IF F.err # OK THEN {[self |-> after, err |-> F.err, ret |-> NoOneLine]}
            ELSE IF ~ (Range(outcomes) \subseteq F.g.vertices)
            THEN {[self |-> after, err |-> "KeyError", ret |-> NoOneLine]}
            ELSE IF Diverges(F.g.parents, Range(outcomes))
            THEN {[self |-> after, err |-> "Hang", ret |-> NoOneLine]}
            ELSE build(F, after, ancestors(F.g, Range(outcomes)) \ F.g.fixed)
        copied(cp, F) == fixed_swig(F, SelfAfter(graph, cp, F.g))
        swig_of(cp) == copied(cp, fix(c, cp.g, treatments))
    IN  swig_of(deepcopy(graph))

-----------------------------------------------------------------------------
(* The state machine: one action per call                                  *)

NoCall == [op |-> "none", args |-> <<>>, err |-> OK, ret |-> <<>>, pre |-> NewGraph({})]

Call(op, args, err, ret) ==
    [op |-> op, args |-> args, err |-> err, ret |-> ret, pre |-> g]

Init ==
    /\ g = NewGraph({})
    /\ cls = "none"
    /\ last = NoCall
    /\ nops = 0
    /\ nq = 0

\* c(vertices, di_edges, bi_edges, ud_edges): a failed constructor leaves no object
Construct(c, vertices, di, bi, ud) ==
    /\ cls = "none" /\ last.op = "none"
    /\ \E R \in (IF c = "Graph" THEN {Graph_init(vertices, di, bi, ud)}
                 ELSE IF c = "SG" THEN SG_init(vertices, di, bi, ud)
                 ELSE ADMG_init(vertices, di, bi)) :
          /\ g' = IF R.err = OK THEN R.g ELSE NewGraph({})
          /\ cls' = IF R.err = OK THEN c ELSE "none"
          /\ last' = Call("__init__", <<c, vertices, di, bi, ud>>, R.err, <<>>)
    /\ UNCHANGED <<nops, nq>>

\* a mutator call with outcome R
Mutate(op, args, R) ==
    /\ cls # "none"
    /\ g' = R.g
    /\ last' = Call(op, args, R.err, <<>>)
    /\ nops' = nops + 1
    /\ UNCHANGED <<cls, nq>>

AddDiedge(parent, child) ==
    Mutate("add_diedge", <<parent, child>>, add_diedge(g, parent, child))

DeleteDiedge(parent, child) ==
    Mutate("delete_diedge", <<parent, child>>, delete_diedge(g, parent, child))

AddBiedge(sib1, sib2) ==
    Mutate("add_biedge", <<sib1, sib2>>, add_biedge(cls, g, sib1, sib2))

DeleteBiedge(sib1, sib2) ==
    Mutate("delete_biedge", <<sib1, sib2>>, delete_biedge(cls, g, sib1, sib2))

AddUdedge(neb1, neb2) ==
    Mutate("add_udedge", <<neb1, neb2>>, add_udedge(cls, g, neb1, neb2))

DeleteUdedge(neb1, neb2) ==
    Mutate("delete_udedge", <<neb1, neb2>>, delete_udedge(cls, g, neb1, neb2))

Fix(vs) ==
    /\ cls \in {"SG", "ADMG"}
    /\ Mutate("fix", vs, fix(cls, g, vs))

\* g = g.subgraph(vs): the program goes on with the subgraph
Subgraph(vs) ==
    /\ cls # "none"
    /\ \E R \in subgraph(cls, g, vs) :
          /\ g' = IF R.err = OK THEN R.g ELSE NewGraph({})
          /\ cls' = IF R.err = OK THEN R.cls ELSE "none"
          /\ last' = Call("subgraph", vs, R.err, <<>>)
    /\ nops' = nops + 1
    /\ UNCHANGED nq

\* a query call with outcome o: the caller's object afterwards is o.self
Query(op, args, o, ret) ==
    /\ g' = o.self
    /\ last' = Call(op, args, o.err, ret)
    /\ nq' = nq + 1
    /\ UNCHANGED <<cls, nops>>

Fixable(S) ==
    /\ cls = "ADMG"
    /\ \E o \in fixable(g, S) :
          Query("fixable", S, o, [ok |-> o.ok, order |-> o.order])

ReachableClosure(S) ==
    /\ cls = "ADMG"
    /\ \E o \in reachable_closure(g, S) :
          Query("reachable_closure", S, o,
                [closure |-> o.closure, order |-> o.order, G |-> o.G])

TopologicalSort ==
    /\ cls # "none"
    /\ \E o \in topological_sort(g) : Query("topological_sort", <<>>, o, o.order)

GetIntrinsicSets ==
    /\ cls = "ADMG"
    /\ \E o \in get_intrinsic_sets(g) :
          Query("get_intrinsic_sets", <<>>, o, [sets |-> o.sets, orders |-> o.orders])

MaximalAridProjection ==
    /\ cls = "ADMG"
    /\ \E o \in maximal_arid_projection(g) :
          Query("maximal_arid_projection", <<>>, o, o.ret)

OneLineID(treatments, outcomes) ==
    /\ cls = "ADMG"
    /\ \E o \in OneLineID_init(cls, g, treatments, outcomes) :
          Query("OneLineID", <<treatments, outcomes>>, o, o.ret)

-----------------------------------------------------------------------------
(* Inputs and specifications                                               *)

Pos(v) == CHOOSE i \in 1..Len(VOrder) : VOrder[i] = v

\* ordered pairs of distinct names, and the pairs listed in dict order
DiPairs(V) == {e \in V \X V : e[1] # e[2]}
BiPairs(V) == {e \in V \X V : Pos(e[1]) < Pos(e[2])}

\* lists of distinct vertices of length 1..MaxFixLen
FixLists(V) ==
    {vs \in UNION {[1..n -> V] : n \in 1..MaxFixLen} :
        \A i, j \in 1..Len(vs) : i # j => vs[i] # vs[j]}

\* SpecGraph: a Graph on {a, b} and the six edge mutators, called with the
\* vertices and with a name that is not a vertex
GraphArgs == GraphNames \cup {Missing}

NextGraph ==
    \/ /\ cls = "none"
       /\ \E di \in SUBSET {<<"a", "b">>}, bi \in SUBSET {<<"a", "b">>, <<"b", "a">>},
             ud \in SUBSET {<<"a", "b">>, <<"a", Missing>>} :
             Construct("Graph", GraphNames, di, bi, ud)
    \/ \E p, c \in GraphArgs : nops < MaxOps /\ AddDiedge(p, c)
    \/ \E p, c \in GraphArgs : nops < MaxOps /\ DeleteDiedge(p, c)
    \/ \E p, c \in GraphArgs : nops < MaxOps /\ AddBiedge(p, c)
    \/ \E p, c \in GraphArgs : nops < MaxOps /\ DeleteBiedge(p, c)
    \/ \E p, c \in GraphArgs : nops < MaxOps /\ AddUdedge(p, c)
    \/ \E p, c \in GraphArgs : nops < MaxOps /\ DeleteUdedge(p, c)

SpecGraph == Init /\ [][NextGraph]_vars

\* SpecSG: an SG or ADMG on {a, b, c}, then add_biedge, delete_biedge, fix
ForwardPairs == BiPairs(Names)

ConstructSG ==
    \/ /\ cls = "none"
       /\ \E di \in SUBSET ForwardPairs, bi \in SUBSET BiPairs(Names),
             ud \in {{}, {<<"b", "c">>}} :
             Construct("SG", Names, di, bi, ud)
    \/ /\ cls = "none"
       /\ \E di \in SUBSET ForwardPairs, bi \in SUBSET BiPairs(Names) :
             Construct("ADMG", Names, di, bi, {})

NextSG ==
    \/ ConstructSG
    \/ \E e \in DiPairs(Names) : nops < MaxSGOps /\ AddBiedge(e[1], e[2])
    \/ \E e \in DiPairs(Names) : nops < MaxSGOps /\ DeleteBiedge(e[1], e[2])
    \/ \E vs \in FixLists(Names) : nops < MaxSGOps /\ Fix(vs)

SpecSG == Init /\ [][NextSG]_vars

\* SpecSub: an SG or ADMG on {a, b, c}, then fix and subgraph
NextSub ==
    \/ ConstructSG
    \/ \E vs \in FixLists(Names) : nops < MaxSGOps /\ Fix(vs)
    \/ \E vs \in SUBSET Names : nops < MaxSGOps /\ vs # {} /\ Subgraph(vs)

SpecSub == Init /\ [][NextSub]_vars

\* SpecADMG: an ADMG on {a, b} or {a, b, c}, fix, and the queries
VertexSets == {{"a", "b"}, Names}

NextADMG ==
    \/ /\ cls = "none"
       /\ \E V \in VertexSets : \E di \in SUBSET DiPairs(V), bi \in SUBSET BiPairs(V) :
             Construct("ADMG", V, di, bi, {})
    \/ \E vs \in FixLists(g.vertices) : nops < MaxFixes /\ nq = 0 /\ Fix(vs)
    \/ \E S \in SUBSET g.vertices : nq < MaxQueries /\ Fixable(S)
    \/ \E S \in SUBSET g.vertices : nq < MaxQueries /\ ReachableClosure(S)
    \/ nq < MaxQueries /\ TopologicalSort
    \/ nq < MaxQueries /\ GetIntrinsicSets
    \/ nq < MaxQueries /\ MaximalAridProjection
    \/ \E t \in {<<>>} \cup {<<v>> : v \in g.vertices}, y \in g.vertices :
          nq < MaxQueries /\ OneLineID(t, <<y>>)

SpecADMG == Init /\ [][NextADMG]_vars

\* SpecCons: SG(vertices, di_edges, bi_edges, ud_edges) on {a, b, c}
NextCons ==
    /\ cls = "none"
    /\ \E di \in SUBSET DiPairs(Names), bi \in SUBSET BiPairs(Names),
          ud \in SUBSET BiPairs(Names) :
          Construct("SG", Names, di, bi, ud)

SpecCons == Init /\ [][NextCons]_vars

-----------------------------------------------------------------------------
(* Claims                                                                  *)

\* the relational indices of G agree with its edge sets, and every endpoint of
\* every stored edge is a vertex
IndicesAgree(G) ==
    /\ \A e \in G.di_edges \cup G.bi_edges \cup G.ud_edges :
          e[1] \in G.vertices /\ e[2] \in G.vertices
    /\ \A u, v \in G.vertices :
          /\ (u \in G.parents[v]) = (v \in G.children[u])
          /\ (u \in G.parents[v]) = (<<u, v>> \in G.di_edges)
          /\ (u \in G.siblings[v]) = (v \in G.siblings[u])
          /\ (u \in G.siblings[v]) = has_biedge(G, u, v)
          /\ (u \in G.neighbors[v]) = (v \in G.neighbors[u])
          /\ (u \in G.neighbors[v]) =
                (<<u, v>> \in G.ud_edges \/ <<v, u>> \in G.ud_edges)

\* C1: in every state reached by constructing a Graph and calling the six edge
\* mutators (calls naming a missing vertex included), parents/children/siblings/
\* neighbors agree with di_edges/bi_edges/ud_edges and every edge endpoint is a
\* vertex.
C1_IndicesAgreeWithEdges == cls = "Graph" => IndicesAgree(g)

\* the edge a delete call names is stored in G
EdgeStored(G, op, e) ==
    IF op = "delete_diedge" THEN e \in G.di_edges
    ELSE IF op = "delete_biedge" THEN has_biedge(G, e[1], e[2])
    ELSE e \in G.ud_edges \/ <<e[2], e[1]>> \in G.ud_edges

DeleteOps == {"delete_diedge", "delete_biedge", "delete_udedge"}

\* C2: deleting an edge that is not in the graph fails with an error and leaves
\* the edge sets and every relational index unchanged; it never adds an edge.
C2_DeleteMissingEdgeFails ==
    (last.op \in DeleteOps /\ ~ EdgeStored(last.pre, last.op, last.args))
        => (last.err # OK /\ g = last.pre)

\* the connected component of the non-fixed vertex v among the non-fixed
\* vertices of G under the stored bidirected edges
NonFixed(G) == G.vertices \ G.fixed
BiAdjacent(G) == [v \in NonFixed(G) |-> {w \in NonFixed(G) : has_biedge(G, v, w)}]
BiComponent(G, v) == Closure(BiAdjacent(G), {}, {v})

\* C3: after construction of an SG or ADMG and any add_biedge, delete_biedge
\* and fix calls, districts() is the set of connected components of the
\* non-fixed vertices under the bidirected edges, and district(v) of a non-fixed
\* v is the component of v.
C3_DistrictsAreComponents ==
    cls \in {"SG", "ADMG"} =>
        /\ districts(g).err = OK
        /\ Range(districts(g).val) = {BiComponent(g, v) : v \in NonFixed(g)}
        /\ \A v \in NonFixed(g) :
              district(g, v).err = OK /\ district(g, v).val = BiComponent(g, v)

\* C4: after fix(S) every v in S is fixed and has no parent and no sibling, in
\* the edge sets and in the indices; the directed edges with head outside S and
\* the bidirected edges with no endpoint in S are kept; the vertex set is kept.
C4_FixRemovesEdgesOfFixed ==
    (last.op = "fix" /\ last.err = OK) =>
        LET S == Range(last.args)
        IN  /\ \A v \in S :
                  /\ v \in g.fixed
                  /\ g.parents[v] = {} /\ g.siblings[v] = {}
                  /\ \A e \in g.di_edges : e[2] # v
                  /\ \A e \in g.bi_edges : e[1] # v /\ e[2] # v
            /\ \A e \in last.pre.di_edges : e[2] \notin S => e \in g.di_edges
            /\ \A e \in last.pre.bi_edges :
                  (e[1] \notin S /\ e[2] \notin S) => e \in g.bi_edges
            /\ g.vertices = last.pre.vertices

\* C5: no fixed vertex appears in districts() or blocks(), after construction,
\* fix calls or subgraph(); a fixed vertex is never unfixed.
C5_FixedInNoDistrictOrBlock ==
    cls \in {"SG", "ADMG"} =>
        /\ districts(g).err = OK =>
              \A k \in 1..Len(districts(g).val) : districts(g).val[k] \cap g.fixed = {}
        /\ blocks(g).err = OK =>
              \A k \in 1..Len(blocks(g).val) : blocks(g).val[k] \cap g.fixed = {}
        /\ (last.op = "fix" /\ last.err = OK) => last.pre.fixed \subseteq g.fixed

IsOrderOf(order, S) ==
    /\ Range(order) \subseteq S
    /\ \A i, j \in 1..Len(order) : i # j => order[i] # order[j]

\* C6: fixable(S) never raises; it returns (True, order) with order a
\* permutation of S, or (False, partial) with partial distinct vertices of S.
C6_FixableNeverRaises ==
    last.op = "fixable" =>
        /\ last.err = OK
        /\ IsOrderOf(last.ret.order, last.args)
        /\ last.ret.ok = (Range(last.ret.order) = last.args)

\* C7: for a non-fixed v, fixable({v}) returns (True, [v]) when descendants(v)
\* meets the district of v only in v, and (False, []) when the intersection has
\* more than one element.
C7_SingleVertexFixable ==
    \A v \in last.pre.vertices \ last.pre.fixed :
        (last.op = "fixable" /\ last.args = {v} /\ ~ Diverges(last.pre.children, {v})) =>
            LET meet == descendants(last.pre, {v}) \cap BiComponent(last.pre, v)
            IN  /\ last.err = OK
                /\ meet = {v} => (last.ret.ok /\ last.ret.order = <<v>>)
                /\ meet # {v} => (~ last.ret.ok /\ last.ret.order = <<>>)

\* C8: reachable_closure(S) returns a closure that contains S, and
\* reachable_closure of that closure on the same graph returns the same closure.
C8_ClosureContainsAndIdempotent ==
    last.op = "reachable_closure" =>
        /\ last.err = OK
        /\ last.args \subseteq last.ret.closure
        /\ \A o \in reachable_closure(last.pre, last.ret.closure) :
              o.err = OK /\ o.closure = last.ret.closure

QueryOps ==
    {"fixable", "reachable_closure", "get_intrinsic_sets", "topological_sort",
     "maximal_arid_projection", "OneLineID"}

\* C9: fixable, reachable_closure, get_intrinsic_sets, topological_sort,
\* maximal_arid_projection and the construction of a OneLineID leave the graph
\* they are called on unchanged (vertices, edge sets, fixed flags, indices,
\* districts), whether the call succeeds or fails.
C9_QueriesLeaveGraphUnchanged == last.op \in QueryOps => g = last.pre

\* a reachable_closure call that returned after fixing a vertex of its copy
C9_Witness ==
    /\ last.op = "reachable_closure" /\ last.err = OK
    /\ last.ret.order # <<>>
    /\ last.ret.G # last.pre

\* some vertex has both a sibling and a neighbor in the constructor's edge lists
HasSiblingAndNeighbor(V, bi, ud) ==
    \E v \in V : /\ \E e \in bi : v \in {e[1], e[2]}
                 /\ \E e \in ud : v \in {e[1], e[2]}

\* C10: constructing an SG fails, producing no graph, whenever some vertex has
\* both a sibling and a neighbor; the segregation check never rejects a graph
\* in which no vertex has both.
C10_NonSegregatedRejected ==
    (last.op = "__init__" /\ last.args[1] = "SG") =>
        IF HasSiblingAndNeighbor(last.args[2], last.args[4], last.args[5])
        THEN last.err # OK /\ cls = "none"
        ELSE last.err # NotSegregated

\* a constructor call on a non-segregated input, rejected by the first assert
C10_Witness ==
    /\ last.op = "__init__" /\ last.args[1] = "SG"
    /\ HasSiblingAndNeighbor(last.args[2], last.args[4], last.args[5])
    /\ last.err = NotSegregated /\ cls = "none"

\* u -- v is one step of a cycle: a directed edge followed forwards or an
\* undirected edge in either direction
CycleStep(di, ud, u, v) ==
    <<u, v>> \in di \/ <<u, v>> \in ud \/ <<v, u>> \in ud

\* the distinct vertices p[1], ..., p[k], p[1] form a directed or partially
\* directed cycle: every step is an edge, at least one step is a directed edge,
\* and a cycle through two vertices uses two different edges
IsCycle(di, ud, p) ==
    LET k      == Len(p)
        nxt(i) == p[(i % k) + 1]
    IN  /\ k >= 2
        /\ \A i \in 1..k : CycleStep(di, ud, p[i], nxt(i))
        /\ \E i \in 1..k : <<p[i], nxt(i)>> \in di
        /\ k = 2 => \E i \in 1..2 :
                       /\ <<p[i], nxt(i)>> \in di
                       /\ \/ <<nxt(i), p[i]>> \in di
                          \/ <<p[i], nxt(i)>> \in ud
                          \/ <<nxt(i), p[i]>> \in ud

HasCycle(V, di, ud) ==
    \E S \in SUBSET V : \E p \in Perms(S) : IsCycle(di, ud, p)

\* C11: on a segregated input the SG constructor fails exactly when the graph
\* has a directed or partially directed cycle: every graph with such a cycle,
\* of any length, is rejected, and a graph without one (its cycles, if any,
\* made of undirected edges alone) is accepted.
C11_FailsIffCycle ==
    (/\ last.op = "__init__" /\ last.args[1] = "SG"
     /\ ~ HasSiblingAndNeighbor(last.args[2], last.args[4], last.args[5])) =>
        ((last.err # OK) = HasCycle(last.args[2], last.args[3], last.args[5]))

UdAdjacent(G) ==
    [v \in NonFixed(G) |->
        {w \in NonFixed(G) : <<v, w>> \in G.ud_edges \/ <<w, v>> \in G.ud_edges}]
UdComponent(G, v) == Closure(UdAdjacent(G), {}, {v})

\* C12: fix(S) on an SG that has undirected edges completes without error;
\* an undirected edge is deleted exactly when one endpoint is in S and the
\* other endpoint is fixed too, every other undirected edge is kept; blocks()
\* afterwards is the set of connected components of the non-fixed vertices
\* under the remaining undirected edges.
C12_FixWithUdEdges ==
    (last.op = "fix" /\ cls = "SG" /\ last.pre.ud_edges # {}) =>
        LET S == Range(last.args)
            gone(e) == /\ e[1] \in g.fixed /\ e[2] \in g.fixed
                       /\ (e[1] \in S \/ e[2] \in S)
        IN  /\ last.err = OK
            /\ g.ud_edges = {e \in last.pre.ud_edges : ~ gone(e)}
            /\ blocks(g).err = OK
            /\ Range(blocks(g).val) = {UdComponent(g, v) : v \in NonFixed(g)}

-----------------------------------------------------------------------------
(* OneLineID.id and OneLineID.functional                                   *)

\* upper bound on the calls made on one graph in SpecID and SpecScenario:
\* the OneLineID constructor, then id() or functional()
MaxIDCalls == 2

IdOut(self, obj, e, val) == [self |-> self, obj |-> obj, err |-> e, val |-> val]

\* the loop `for district in self.Gystar.districts` of OneLineID.id over the
\* list ds from position i; graph is self.graph, the caller's object;
\* tuple(district) lists the set in one of its iteration orders
RECURSIVE id_loop(_, _, _, _)
id_loop(graph, obj, ds, i) ==
    IF i > Len(ds) THEN {IdOut(graph, obj, OK, TRUE)}
    ELSE UNION {
        IF o.err # OK THEN {IdOut(o.self, obj, o.err, FALSE)}
        ELSE IF ~ o.ok THEN {IdOut(o.self, obj, OK, FALSE)}
        ELSE UNION { id_loop(o.self,
                             [obj EXCEPT !.fixing_orders = (key :> o.order) @@ @],
                             ds, i + 1)
                     : key \in Perms(ds[i]) }
        : o \in fixable(graph, graph.vertices \ ds[i]) }

\* OneLineID.id: outcomes [self, obj, err, val]; line 77 iterates the bound
\* method self.Gystar.districts
id(graph, obj) ==
    LET obj0 == [obj EXCEPT !.fixing_orders = EmptyMap]
        ds   == districts_attribute(obj0.Gystar)
    IN  IF ds.err # OK THEN {IdOut(graph, obj0, ds.err, FALSE)}
        ELSE id_loop(graph, obj0, ds.val, 1)

\* Python's order on tuples of one-character names
RECURSIVE TupleLess(_, _)
TupleLess(s, t) ==
    IF t = <<>> THEN FALSE
    ELSE IF s = <<>> THEN TRUE
    ELSE IF s[1] # t[1] THEN Pos(s[1]) < Pos(t[1])
    ELSE TupleLess(Tail(s), Tail(t))

Reversed(s) == [i \in 1..Len(s) |-> s[Len(s) + 1 - i]]

\* the loop `for district in sorted(list(self.fixing_orders))` of functional:
\* the pieces appended to the string
RECURSIVE functional_pieces(_, _, _)
functional_pieces(fixing_orders, keys, i) ==
    IF i > Len(keys) THEN <<>>
    ELSE <<"Phi">> \o Reversed(fixing_orders[keys[i]]) \o <<"(p(V);G) ">>
         \o functional_pieces(fixing_orders, keys, i + 1)

NotIdentifiedError == "NotIdentifiedError"

\* OneLineID.functional: outcomes [self, obj, err, val], val the string as the
\* sequence of its pieces
functional(graph, obj) ==
    UNION {
        IF r.err # OK THEN {IdOut(r.self, r.obj, r.err, <<>>)}
        ELSE IF ~ r.val THEN {IdOut(r.self, r.obj, NotIdentifiedError, <<>>)}
        ELSE LET ystar == r.obj.ystar
                 head  == IF ystar = Range(r.obj.outcomes) THEN <<>> ELSE <<"Sigma">>
                 sep   == IF Cardinality(ystar) > 1 THEN <<" ">> ELSE <<>>
                 keys  == SortSeq(CHOOSE ks \in Perms(DOMAIN r.obj.fixing_orders) : TRUE,
                                  TupleLess)
             IN  { IdOut(r.self, r.obj, OK,
                         head \o ys \o sep \o functional_pieces(r.obj.fixing_orders, keys, 1))
                   : ys \in Perms(ystar \ Range(r.obj.outcomes)) }
        : r \in id(graph, obj) }

\* the OneLineID object of the last call
OneLineObj == IF last.op = "OneLineID" THEN last.ret ELSE last.ret.obj

HasOneLineObj ==
    (last.op = "OneLineID" /\ last.err = OK) \/ last.op \in {"id", "functional"}

IdRet(o) == [obj |-> o.obj, val |-> o.val]

Id ==
    /\ cls = "ADMG" /\ HasOneLineObj
    /\ \E o \in id(g, OneLineObj) : Query("id", <<>>, o, IdRet(o))

Functional ==
    /\ cls = "ADMG" /\ HasOneLineObj
    /\ \E o \in functional(g, OneLineObj) : Query("functional", <<>>, o, IdRet(o))

\* SpecID: an ADMG on two or three vertices, one OneLineID query with at most
\* one treatment and one outcome, then id() or functional() on it
NextID ==
    \/ /\ cls = "none"
       /\ \E V \in VertexSets : \E di \in SUBSET DiPairs(V), bi \in SUBSET BiPairs(V) :
             Construct("ADMG", V, di, bi, {})
    \/ \E t \in {<<>>} \cup {<<v>> : v \in g.vertices}, y \in g.vertices :
          nq = 0 /\ OneLineID(t, <<y>>)
    \/ nq < MaxIDCalls /\ Id
    \/ nq < MaxIDCalls /\ Functional

SpecID == Init /\ [][NextID]_vars

\* fixable(S) on graph can return (True, order)
FixableSucceeds(graph, S) ==
    \E o \in fixable(graph, S) : o.err = OK /\ o.ok

IsPermutationOf(order, S) == IsOrderOf(order, S) /\ Range(order) = S

\* C13: id() returns True exactly when fixable(V - D) succeeds on the original
\* graph for every district D of Gystar; when it returns True, fixing_orders
\* has exactly one entry per district of Gystar, an order of exactly the
\* vertices outside that district.
C13_IdIffEveryDistrictFixable ==
    last.op = "id" =>
        LET obj == last.ret.obj
            V   == last.pre.vertices
            ds  == districts(obj.Gystar).val
            fo  == obj.fixing_orders
        IN  /\ last.err = OK
            /\ last.ret.val =
                  (\A k \in 1..Len(ds) : FixableSucceeds(last.pre, V \ ds[k]))
            /\ last.ret.val =>
                  /\ Cardinality(DOMAIN fo) = Len(ds)
                  /\ \A k \in 1..Len(ds) : \E key \in DOMAIN fo :
                        Range(key) = ds[k] /\ IsPermutationOf(fo[key], V \ ds[k])

\* the front-door query: a -> b, b -> c, a <-> c, treatment a, outcome c
FrontDoor(graph, obj) ==
    /\ graph.vertices = {"a", "b", "c"}
    /\ graph.di_edges = {<<"a", "b">>, <<"b", "c">>}
    /\ graph.bi_edges = {<<"a", "c">>}
    /\ obj.treatments = <<"a">> /\ obj.outcomes = <<"c">>

\* C14: functional() either returns a string or raises NotIdentifiedError,
\* and nothing else; it raises NotIdentifiedError when id() is False and
\* returns a string when id() is True, as it does for the front-door query.
C14_FunctionalRaisesIffNotIdentified ==
    last.op = "functional" =>
        LET obj == last.ret.obj
        IN  /\ last.err \in {OK, NotIdentifiedError}
            /\ \A r \in id(last.pre, obj) : r.err = OK =>
                  /\ r.val => last.err = OK
                  /\ ~ r.val => (last.err = NotIdentifiedError /\ last.ret.val = <<>>)
            /\ FrontDoor(last.pre, obj) => last.err = OK

-----------------------------------------------------------------------------
(* The graph of test_id_graph / test_non_id_graph / test_obtaining_districts *)

\* vertices A, B, C, D, Y of the tests, written a, b, c, d, y
ScenarioVertices == {"a", "b", "c", "d", "y"}
ScenarioDiEdges ==
    {<<"a", "b">>, <<"a", "d">>, <<"b", "c">>, <<"c", "y">>, <<"b", "d">>, <<"d", "y">>}
ScenarioBiEdges == {<<"a", "c">>, <<"b", "y">>, <<"b", "d">>}

\* SpecScenario: the ADMG of the tests, one OneLineID query with up to two
\* treatments and one outcome, then id() on it
NextScenario ==
    \/ /\ cls = "none"
       /\ Construct("ADMG", ScenarioVertices, ScenarioDiEdges, ScenarioBiEdges, {})
    \/ \E t \in {<<>>} \cup FixLists(g.vertices), y \in g.vertices :
          nq = 0 /\ OneLineID(t, <<y>>)
    \/ nq < MaxIDCalls /\ Id

SpecScenario == Init /\ [][NextScenario]_vars

\* C15: on the graph of the tests the districts are {A,C} and {B,D,Y};
\* OneLineID with treatment A and outcome Y has ystar = {B,C,D,Y} and id()
\* True; OneLineID with treatments A, B and outcome Y has id() False.
C15_ScenarioA ==
    /\ cls = "ADMG" =>
          /\ districts(g).err = OK
          /\ Range(districts(g).val) = {{"a", "c"}, {"b", "d", "y"}}
    /\ (last.op = "OneLineID" /\ last.args = <<<<"a">>, <<"y">>>>) =>
          (last.err = OK /\ last.ret.ystar = {"b", "c", "d", "y"})
    /\ (last.op = "id" /\ last.ret.obj.outcomes = <<"y">>) =>
          /\ last.ret.obj.treatments = <<"a">> => (last.err = OK /\ last.ret.val)
          /\ Range(last.ret.obj.treatments) = {"a", "b"} =>
                (last.err = OK /\ ~ last.ret.val)

\* C16: for every ADMG with both a directed edge T -> Y and a bidirected edge
\* T <-> Y, OneLineID(G, [T], [Y]).id() returns False.
C16_BowArcNotIdentified ==
    \A t, y \in last.pre.vertices :
        (/\ last.op = "id"
         /\ last.ret.obj.treatments = <<t>> /\ last.ret.obj.outcomes = <<y>>
         /\ <<t, y>> \in last.pre.di_edges /\ has_biedge(last.pre, t, y)) =>
            (last.err = OK /\ last.ret.val = FALSE)

\* C17: every set returned by get_intrinsic_sets() is a non-empty set of
\* non-fixed vertices, equals its own reachable closure in the ADMG it was
\* computed from, and its recorded fixing order lists exactly the non-fixed
\* vertices outside the set, each once.
C17_IntrinsicSetsAreClosed ==
    (last.op = "get_intrinsic_sets" /\ last.err = OK) =>
        \A S \in last.ret.sets :
            /\ S # {} /\ S \subseteq NonFixed(last.pre)
            /\ \A o \in reachable_closure(last.pre, S) : o.err = OK /\ o.closure = S
            /\ S \in DOMAIN last.ret.orders
            /\ IsPermutationOf(last.ret.orders[S], NonFixed(last.pre) \ S)

\* get_intrinsic_sets() returned at least three sets, one of them reached by
\* fixing a vertex and one of them a merged set of two vertices
C17_Witness ==
    /\ last.op = "get_intrinsic_sets" /\ last.err = OK
    /\ Cardinality(last.ret.sets) >= 3
    /\ \E S \in last.ret.sets : Len(last.ret.orders[S]) = 1
    /\ \E S \in last.ret.sets : Cardinality(S) = 2

\* C18: for every vertex v such that fixable(V - {v}) succeeds on the ADMG,
\* get_intrinsic_sets() on that ADMG returns, and {v} is one of the sets.
C18_FixableComplementIsIntrinsic ==
    \A v \in last.pre.vertices :
        (/\ last.op = "get_intrinsic_sets"
         /\ FixableSucceeds(last.pre, last.pre.vertices \ {v})) =>
            (last.err = OK /\ {v} \in last.ret.sets)

\* get_intrinsic_sets() on an ADMG with a bidirected edge, in which fixable of
\* the other vertices succeeds for one vertex and fails for another
C18_Witness ==
    /\ last.op = "get_intrinsic_sets" /\ last.err = OK
    /\ last.pre.bi_edges # {}
    /\ \E v \in last.pre.vertices :
          /\ FixableSucceeds(last.pre, last.pre.vertices \ {v})
          /\ {v} \in last.ret.sets
    /\ \E v \in last.pre.vertices :
          /\ ~ FixableSucceeds(last.pre, last.pre.vertices \ {v})
          /\ {v} \notin last.ret.sets

\* S is connected through bidirected edges of G among its own members
BiConnectedWithin(G, S) ==
    \A v \in S :
        Closure([u \in S |-> {w \in S : has_biedge(G, u, w)}], {}, {v}) = S

\* C19: on an ADMG with no directed edges (and no fixed vertex)
\* get_intrinsic_sets() returns exactly the non-empty vertex subsets that are
\* connected through bidirected edges among their own members; on three
\* pairwise bidirected-connected vertices these are all 7 non-empty subsets.
C19_IntrinsicSetsOfBidirectedGraph ==
    (/\ last.op = "get_intrinsic_sets"
     /\ last.pre.di_edges = {} /\ last.pre.fixed = {}) =>
        /\ last.err = OK
        /\ last.ret.sets =
              {S \in SUBSET last.pre.vertices : S # {} /\ BiConnectedWithin(last.pre, S)}

Within(edges, W) == {e \in edges : e[1] \in W /\ e[2] \in W}

\* H has exactly the vertices W, the edges of G of each kind with both
\* endpoints in W, and the fixed flags of G on W
IsInducedOn(H, G, W) ==
    /\ H.vertices = W
    /\ H.di_edges = Within(G.di_edges, W)
    /\ H.bi_edges = Within(G.bi_edges, W)
    /\ H.ud_edges = Within(G.ud_edges, W)
    /\ H.fixed = G.fixed \cap W

\* C20: for W a set of vertices of the graph, subgraph(W) has exactly the
\* vertices W, exactly the edges of each kind with both endpoints in W, and the
\* source's fixed flags; for V2 within W, subgraph(W).subgraph(V2) has the
\* vertices, edges and fixed flags of subgraph(V2) of the source graph.
C20_SubgraphInducedAndComposes ==
    (last.op = "subgraph" /\ last.args \subseteq last.pre.vertices) =>
        /\ last.err = OK /\ IsInducedOn(g, last.pre, last.args)
        /\ \A V2 \in SUBSET last.args : V2 # {} =>
              \A R2 \in subgraph(cls, g, V2), R1 \in subgraph(cls, last.pre, V2) :
                  /\ R2.err = OK /\ R1.err = OK
                  /\ R2.g.vertices = R1.g.vertices
                  /\ R2.g.di_edges = R1.g.di_edges
                  /\ R2.g.bi_edges = R1.g.bi_edges
                  /\ R2.g.ud_edges = R1.g.ud_edges
                  /\ R2.g.fixed = R1.g.fixed

\* subgraph(W) on a graph with a fixed vertex, keeping the fixed vertex and an
\* edge and dropping a vertex and an edge
C20_Witness ==
    /\ last.op = "subgraph" /\ last.err = OK
    /\ last.args # last.pre.vertices /\ Cardinality(last.args) >= 2
    /\ g.fixed # {}
    /\ g.di_edges \cup g.bi_edges \cup g.ud_edges # {}
    /\ g.di_edges \cup g.bi_edges # last.pre.di_edges \cup last.pre.bi_edges

-----------------------------------------------------------------------------
(* ADMG.markov_pillow, ADMG.markov_blanket, ADMG.mb_shielded               *)

\* Graph.pre: the order up to the first of the given vertices
pre(vertices, top_order) ==
    LET hits == {i \in 1..Len(top_order) : top_order[i] \in Range(vertices)}
    IN  IF hits = {} THEN top_order
        ELSE SubSeq(top_order, 1, (CHOOSE i \in hits : \A j \in hits : i <= j) - 1)

\* the loop `for v in vertices: blanket = blanket.union(G.district(v))` of
\* markov_pillow and markov_blanket, from position i
RECURSIVE union_districts(_, _, _, _)
union_districts(G, vertices, i, blanket) ==
    IF i > Len(vertices) THEN ValRes(blanket, OK)
    ELSE LET add(d) == IF d.err # OK THEN ValRes(blanket, d.err)
                       ELSE union_districts(G, vertices, i + 1, blanket \cup d.val)
         IN  add(district(G, vertices[i]))

\* ADMG.markov_blanket
markov_blanket(self, vertices) ==
    LET finish(b) == IF b.err # OK THEN b
                     ELSE ValRes((b.val \cup parents(self, b.val)) \ Range(vertices), OK)
    IN  finish(union_districts(self, vertices, 1, {}))

\* ADMG.markov_pillow: the possible outcomes
markov_pillow(self, vertices, top_order) ==
    { IF Gsub.err # OK THEN ValRes({}, Gsub.err)
      ELSE LET finish(b) ==
                   IF b.err # OK THEN b
                   ELSE ValRes((b.val \cup parents(Gsub.g, b.val)) \ Range(vertices), OK)
           IN  finish(union_districts(Gsub.g, vertices, 1, {}))
      : Gsub \in subgraph("ADMG", self, Range(pre(vertices, top_order) \o vertices)) }

\* the loop over itertools.combinations(self.vertices, 2) of mb_shielded
RECURSIVE mb_shielded_loop(_, _, _)
mb_shielded_loop(self, pairs, k) ==
    IF k > Len(pairs) THEN ValRes(TRUE, OK)
    ELSE
    LET Vi == pairs[k][1]
        Vj == pairs[k][2]
        second(b) == IF b.err # OK THEN ValRes(FALSE, b.err)
                     ELSE IF Vj \in b.val THEN ValRes(FALSE, OK)
                     ELSE mb_shielded_loop(self, pairs, k + 1)
        first(b) == IF b.err # OK THEN ValRes(FALSE, b.err)
                    ELSE IF Vi \in b.val THEN ValRes(FALSE, OK)
                    ELSE second(markov_blanket(self, <<Vi>>))
    IN  IF Vi \in siblings(self, {Vj}) \/ <<Vi, Vj>> \in self.di_edges
           \/ <<Vj, Vi>> \in self.di_edges
        THEN mb_shielded_loop(self, pairs, k + 1)
        ELSE first(markov_blanket(self, <<Vj>>))

\* ADMG.mb_shielded
mb_shielded(self) == mb_shielded_loop(self, Pairs(InOrder(self.vertices, 1)), 1)

\* a call that works on self without changing it, with result r
Same(r) == [self |-> g, err |-> r.err]

MarkovPillow(vertices, top_order) ==
    /\ cls = "ADMG"
    /\ \E r \in markov_pillow(g, vertices, top_order) :
          Query("markov_pillow", <<vertices, top_order>>, Same(r), r.val)

MarkovBlanket(vertices) ==
    /\ cls = "ADMG"
    /\ Query("markov_blanket", vertices, Same(markov_blanket(g, vertices)),
             markov_blanket(g, vertices).val)

MbShielded ==
    /\ cls = "ADMG"
    /\ Query("mb_shielded", <<>>, Same(mb_shielded(g)), mb_shielded(g).val)

\* SpecMB: an ADMG on two or three vertices, at most MaxFixes calls of fix,
\* then one of markov_pillow, markov_blanket, mb_shielded
NextMB ==
    \/ /\ cls = "none"
       /\ \E V \in VertexSets : \E di \in SUBSET DiPairs(V), bi \in SUBSET BiPairs(V) :
             Construct("ADMG", V, di, bi, {})
    \/ \E vs \in FixLists(g.vertices) : nops < MaxFixes /\ nq = 0 /\ Fix(vs)
    \/ \E vs \in FixLists(g.vertices), top_order \in Perms(g.vertices) :
          nq < MaxQueries /\ MarkovPillow(vs, top_order)
    \/ \E vs \in FixLists(g.vertices) : nq < MaxQueries /\ MarkovBlanket(vs)
    \/ nq < MaxQueries /\ MbShielded

SpecMB == Init /\ [][NextMB]_vars

\* the vertices joined to v by bidirected edges of G inside the vertex set W
BiComponentWithin(G, W, v) ==
    Closure([u \in W |-> {w \in W : has_biedge(G, u, w)}], {}, {v})

\* C21: markov_pillow(S, order) is (D + parents(D)) - S, D the union of the
\* districts of the members of S, districts and parents taken in the subgraph
\* induced on S and pre(S, order); so the pillow lies within that prefix and
\* contains no member of S.
C21_MarkovPillow ==
    last.op = "markov_pillow" =>
        LET S  == Range(last.args[1])
            P  == Range(pre(last.args[1], last.args[2]))
            W  == (S \cup P) \ last.pre.fixed
            D  == UNION {BiComponentWithin(last.pre, W, v) : v \in S \ last.pre.fixed}
            pa == {p \in S \cup P : \E d \in D : <<p, d>> \in last.pre.di_edges}
        IN  /\ last.err = OK
            /\ last.ret = (D \cup pa) \ S
            /\ last.ret \subseteq P
            /\ last.ret \cap S = {}

\* the Markov blanket of v as the specification states it: the district of v
\* (the bidirected-connected component among the non-fixed vertices) and
\* the parents of that district, without v
SpecBlanket(G, v) ==
    LET D == IF v \in G.fixed THEN {}
             ELSE BiComponentWithin(G, G.vertices \ G.fixed, v)
    IN  (D \cup {p \in G.vertices : \E d \in D : <<p, d>> \in G.di_edges}) \ {v}

NonAdjacent(G, u, v) ==
    /\ u # v
    /\ <<u, v>> \notin G.di_edges /\ <<v, u>> \notin G.di_edges
    /\ ~has_biedge(G, u, v)

BlanketViolation(G) ==
    \E u, v \in G.vertices :
        NonAdjacent(G, u, v) /\ (u \in SpecBlanket(G, v) \/ v \in SpecBlanket(G, u))

\* C22: mb_shielded() returns False exactly when some pair of distinct,
\* non-adjacent vertices (no directed edge either way, no bidirected edge)
\* has one vertex in the Markov blanket of the other, and True otherwise
C22_MbShielded ==
    last.op = "mb_shielded" =>
        /\ last.err = OK
        /\ last.ret = ~BlanketViolation(last.pre)

-----------------------------------------------------------------------------
(* Fixing as the specification defines it, on the edge sets alone           *)

\* the conditional graph of G: vertices, fixed vertices, directed edges and
\* bidirected edges (both orientations)
Abs(G) ==
    [vertices |-> G.vertices, fixed |-> G.fixed, di |-> G.di_edges,
     bi |-> {<<u, v>> \in G.vertices \X G.vertices : has_biedge(G, u, v)}]

\* fixing v: v becomes fixed; its incoming directed edges and its bidirected
\* edges are removed
AbsFix(A, v) ==
    [A EXCEPT !.fixed = @ \cup {v},
              !.di = {e \in @ : e[2] # v},
              !.bi = {e \in @ : e[1] # v /\ e[2] # v}]

AbsDistrict(A, v) ==
    Closure([u \in A.vertices |-> {w \in A.vertices \ A.fixed : <<u, w>> \in A.bi}],
            {}, {v})

AbsDescendants(A, vs) ==
    Closure([u \in A.vertices |-> {w \in A.vertices : <<u, w>> \in A.di}], {}, vs)

AbsAncestors(A, vs) ==
    Closure([u \in A.vertices |-> {w \in A.vertices : <<w, u>> \in A.di}], {}, vs)

\* the single-vertex condition: descendants(v) /\ district(v) = {v}
AbsFixable(A, v) == AbsDescendants(A, {v}) \cap AbsDistrict(A, v) = {v}

AbsCandidates(A, S) == {v \in (A.vertices \ A.fixed) \ S : AbsFixable(A, v)}

\* the conditional graph left when no non-fixed vertex outside S is fixable
RECURSIVE AbsClosureGraph(_, _)
AbsClosureGraph(A, S) ==
    IF AbsCandidates(A, S) = {} THEN A
    ELSE AbsClosureGraph(AbsFix(A, CHOOSE v \in AbsCandidates(A, S) : TRUE), S)

AbsClosure(A, S) ==
    LET C == AbsClosureGraph(A, S) IN C.vertices \ C.fixed

AbsAcyclic(A) ==
    \A v \in A.vertices :
        v \notin AbsDescendants(A, {w \in A.vertices : <<v, w>> \in A.di})

AridDiEdges(A) ==
    {<<u, v>> \in A.vertices \X A.vertices :
        /\ u # v /\ u \in AbsAncestors(A, {v})
        /\ \E m \in AbsClosure(A, {v}) : <<u, m>> \in A.di}

AridBiPairs(A) ==
    {{u, v} : <<u, v>> \in
        {<<u, v>> \in A.vertices \X A.vertices :
            /\ u # v
            /\ u \notin AbsAncestors(A, {v}) /\ v \notin AbsAncestors(A, {u})
            /\ \E w \in AbsClosure(A, {u, v}) :
                  AbsClosure(A, {u, v}) \subseteq AbsDistrict(AbsClosureGraph(A, {u, v}), w)}}

\* C23: maximal_arid_projection() returns an ADMG on the same vertices, with
\* u -> v exactly when u is an ancestor of v and a parent of some member of
\* reachable_closure({v}), and u <-> v only for pairs of which neither is an
\* ancestor of the other, exactly when reachable_closure({u, v}) lies within
\* a single district of the CADMG the closure leaves.
C23_MaximalAridProjection ==
    (last.op = "maximal_arid_projection" /\ AbsAcyclic(Abs(last.pre))) =>
        /\ last.err = OK
        /\ last.ret.vertices = last.pre.vertices
        /\ last.ret.di_edges = AridDiEdges(Abs(last.pre))
        /\ {{e[1], e[2]} : e \in last.ret.bi_edges} = AridBiPairs(Abs(last.pre))

-----------------------------------------------------------------------------
(* OneLineGID.id and OnelineAID.id                                          *)

\* longest list of experiments passed to id
MaxExperiments == 2

AllowedOut(e, sets, dict, orders) ==
    [err |-> e, sets |-> sets, dict |-> dict, orders |-> orders]

\* the loop of OneLineGID._allowed_intrinsic_sets from experiment k; graph is
\* self.graph; swig.fix(experiment) iterates the set experiment in one of its
\* orders
RECURSIVE allowed_loop(_, _, _, _)
allowed_loop(graph, experiments, k, acc) ==
    IF k > Len(experiments) THEN {acc}
    ELSE UNION {
        LET fixed_swig(F) ==
                IF F.err # OK THEN {[acc EXCEPT !.err = F.err]}
                ELSE UNION {
                    IF o.err # OK THEN {[acc EXCEPT !.err = o.err]}
                    ELSE allowed_loop(graph, experiments, k + 1,
                             AllowedOut(OK, acc.sets \cup o.sets,
                                        [s \in o.sets |-> experiments[k]] @@ acc.dict,
                                        (experiments[k] :> o.orders) @@ acc.orders))
                    : o \in get_intrinsic_sets(F.g) }
        IN  fixed_swig(ADMG_fix(deepcopy(graph).g, vs))
        : vs \in Perms(experiments[k]) }

\* OneLineGID._allowed_intrinsic_sets
_allowed_intrinsic_sets(graph, experiments) ==
    allowed_loop(graph, experiments, 1, AllowedOut(OK, {}, EmptyMap, EmptyMap))

GidOut(self, obj, e, val, required, allowed) ==
    [self |-> self, obj |-> obj, err |-> e, val |-> val,
     required |-> required, allowed |-> allowed]

\* the comparison allowed_intrinsic_sets >= required_intrinsic_sets that ends
\* OneLineGID.id and OnelineAID.id, for each outcome of the two computations
is_id(graph, obj, required, allowed) ==
    UNION {
        IF r.err # OK THEN {GidOut(graph, obj, r.err, FALSE, {}, {})}
        ELSE { IF a.err # OK THEN GidOut(graph, obj, a.err, FALSE, {}, {})
               ELSE GidOut(graph, obj, OK, r.sets \subseteq a.sets, r.sets, a.sets)
               : a \in allowed }
        : r \in required }

\* OneLineGID.id(experiments): outcomes [self, obj, err, val, required, allowed]
GID_id(graph, obj, experiments) ==
    is_id(graph, obj, get_intrinsic_sets(obj.Gystar),
          _allowed_intrinsic_sets(graph, experiments))

\* ADMG.is_subgraph
is_subgraph(self, other) ==
    /\ self.vertices \subseteq other.vertices
    /\ self.di_edges \subseteq other.di_edges
    /\ self.bi_edges \subseteq other.bi_edges

\* ADMG.is_ancestral_subgraph
is_ancestral_subgraph(self, other) ==
    /\ is_subgraph(self, other)
    /\ \A v \in self.vertices : self.parents[v] = other.parents[v]

\* check_experiments_ancestral from experiment k: each pass fixes the
\* experiment's fixed vertices, in dict order, on a deep copy of admg
RECURSIVE check_experiments_ancestral(_, _, _)
check_experiments_ancestral(admg, experiments, k) ==
    IF k > Len(experiments) THEN ValRes(TRUE, OK)
    ELSE LET tested(F) ==
                 IF F.err # OK THEN ValRes(FALSE, F.err)
                 ELSE IF ~ is_ancestral_subgraph(experiments[k], admg)
                 THEN ValRes(FALSE, OK)
                 ELSE check_experiments_ancestral(admg, experiments, k + 1)
         IN  tested(ADMG_fix(deepcopy(admg).g, InOrder(experiments[k].fixed, 1)))

\* get_allowed_intrinsic_sets from experiment k (a list of ADMGs)
RECURSIVE get_allowed_intrinsic_sets(_, _, _)
get_allowed_intrinsic_sets(experiments, k, acc) ==
    IF k > Len(experiments) THEN {acc}
    ELSE UNION {
        IF o.err # OK THEN {[acc EXCEPT !.err = o.err]}
        ELSE get_allowed_intrinsic_sets(experiments, k + 1,
                 AllowedOut(OK, acc.sets \cup o.sets,
                            [s \in o.sets |-> k - 1] @@ acc.dict,
                            ((k - 1) :> o.orders) @@ acc.orders))
        : o \in get_intrinsic_sets(experiments[k]) }

\* OnelineAID.id(experiments)
AID_id(graph, obj, experiments) ==
    LET checked(c) ==
            IF c.err # OK THEN {GidOut(graph, obj, c.err, FALSE, {}, {})}
            ELSE IF ~ c.val THEN {GidOut(graph, obj, NotIdentifiedError, FALSE, {}, {})}
            ELSE is_id(graph, obj, get_intrinsic_sets(obj.Gystar),
                       get_allowed_intrinsic_sets(experiments, 1,
                           AllowedOut(OK, {}, EmptyMap, EmptyMap)))
    IN  checked(check_experiments_ancestral(graph, experiments, 1))

\* OneLineGID.__init__ and OnelineAID.__init__: the statements of
\* OneLineID.__init__ without the last one
OneLineGID(kind, interventions, outcomes) ==
    /\ cls = "ADMG"
    /\ \E o \in OneLineID_init(cls, g, interventions, outcomes) :
          Query(kind, <<interventions, outcomes>>, o, [obj |-> o.ret])

GidRet(o) == [obj |-> o.obj, val |-> o.val, required |-> o.required, allowed |-> o.allowed]

GidId(experiments) ==
    /\ cls = "ADMG"
    /\ \/ last.op = "OneLineGID" /\ last.err = OK
       \/ last.op = "OneLineGID.id"
    /\ \E o \in GID_id(g, last.ret.obj, experiments) :
          Query("OneLineGID.id", experiments, o, GidRet(o))

AidId(experiments) ==
    /\ cls = "ADMG"
    /\ \/ last.op = "OnelineAID" /\ last.err = OK
       \/ last.op = "OnelineAID.id"
    /\ \E o \in AID_id(g, last.ret.obj, experiments) :
          Query("OnelineAID.id", experiments, o, GidRet(o))

\* lists of at most MaxExperiments members of S
Lists(S) == UNION {[1..n -> S] : n \in 0..MaxExperiments}

\* the experiments of OnelineAID: the ADMG on a non-empty subset W of the
\* vertices with the edges of G inside W, after fixing at most one vertex
ExperimentGraphs(G) ==
    UNION { UNION { {R.g} \cup {ADMG_fix(R.g, <<v>>).g : v \in W}
                    : R \in {R \in ADMG_init(W, {e \in G.di_edges : e[1] \in W /\ e[2] \in W},
                                             {e \in G.bi_edges : e[1] \in W /\ e[2] \in W})
                             : R.err = OK} }
            : W \in SUBSET G.vertices \ {{}} }

\* SpecGID: an ADMG on {a, b}, a OneLineGID or OnelineAID object with at most
\* one intervention and one outcome, then id(experiments) on it
NextGID ==
    \/ /\ cls = "none"
       /\ \E di \in SUBSET DiPairs(GraphNames), bi \in SUBSET BiPairs(GraphNames) :
             Construct("ADMG", GraphNames, di, bi, {})
    \/ \E kind \in {"OneLineGID", "OnelineAID"},
          t \in {<<>>} \cup {<<v>> : v \in g.vertices}, y \in g.vertices :
          nq = 0 /\ OneLineGID(kind, t, <<y>>)
    \/ \E experiments \in Lists(SUBSET g.vertices) :
          nq < MaxIDCalls /\ GidId(experiments)
    \/ \E experiments \in Lists(ExperimentGraphs(g)) :
          nq < MaxIDCalls /\ AidId(experiments)

SpecGID == Init /\ [][NextGID]_vars

RECURSIVE AbsFixSet(_, _)
AbsFixSet(A, S) ==
    IF S = {} THEN A
    ELSE LET v == CHOOSE v \in S : TRUE IN AbsFixSet(AbsFix(A, v), S \ {v})

\* the intrinsic sets of a conditional graph: the non-empty sets of non-fixed
\* vertices that are their own reachable closure and lie within one district
\* of the graph the closure leaves
AbsIntrinsicSets(A) ==
    {C \in SUBSET (A.vertices \ A.fixed) :
        /\ C # {}
        /\ AbsClosure(A, C) = C
        /\ \E w \in C : C \subseteq AbsDistrict(AbsClosureGraph(A, C), w)}

AbsAncestralSubgraph(E, A) ==
    /\ E.vertices \subseteq A.vertices /\ E.di \subseteq A.di /\ E.bi \subseteq A.bi
    /\ \A v \in E.vertices :
          {p \in E.vertices : <<p, v>> \in E.di} = {p \in A.vertices : <<p, v>> \in A.di}

\* C24: OneLineGID.id(experiments) returns True exactly when every intrinsic
\* set of Gystar is an intrinsic set of at least one of the graphs obtained by
\* fixing one experiment's intervention set in the graph; OnelineAID.id
\* raises NotIdentifiedError when some experiment graph is not an ancestral
\* subgraph of the graph and applies the same test to the experiment graphs
\* otherwise.
C24_GeneralisedId ==
    /\ (last.op = "OneLineGID.id" /\ AbsAcyclic(Abs(last.pre))) =>
          /\ last.err = OK
          /\ last.ret.val =
                (AbsIntrinsicSets(Abs(last.ret.obj.Gystar)) \subseteq
                    UNION {AbsIntrinsicSets(AbsFixSet(Abs(last.pre), last.args[k]))
                           : k \in 1..Len(last.args)})
    /\ (last.op = "OnelineAID.id" /\ AbsAcyclic(Abs(last.pre))) =>
          IF \E k \in 1..Len(last.args) :
                ~ AbsAncestralSubgraph(Abs(last.args[k]), Abs(last.pre))
          THEN last.err = NotIdentifiedError
          ELSE /\ last.err = OK
               /\ last.ret.val =
                     (AbsIntrinsicSets(Abs(last.ret.obj.Gystar)) \subseteq
                         UNION {AbsIntrinsicSets(Abs(last.args[k]))
                                : k \in 1..Len(last.args)})

\* position of v in order
Index(order, v) == CHOOSE i \in 1..Len(order) : order[i] = v

\* C25: when the directed edges are acyclic, topological_sort() returns a
\* list that contains every vertex exactly once and places u before v for
\* every directed edge u -> v, whichever order the children are visited in.
C25_TopologicalSort ==
    (last.op = "topological_sort" /\ AbsAcyclic(Abs(last.pre))) =>
        /\ last.err = OK
        /\ IsPermutationOf(last.ret, last.pre.vertices)
        /\ \A e \in last.pre.di_edges : Index(last.ret, e[1]) < Index(last.ret, e[2])

\* a sort of a graph with a vertex of two parents and a vertex of two children
C25_Witness ==
    /\ last.op = "topological_sort" /\ last.err = OK
    /\ AbsAcyclic(Abs(last.pre))
    /\ \E v \in last.pre.vertices : Cardinality(last.pre.parents[v]) = 2
    /\ Len(last.ret) = 3

-----------------------------------------------------------------------------
(* IG.get_intrinsic_sets, one merge at a time                               *)

\* merges of one call explored by SpecIG
MaxMerges == 4

\* ig = IG(copy.deepcopy(self)), line 254 of admg.py
IGNew ==
    /\ cls = "ADMG" /\ nq = 0
    /\ \E i \in IG_init(deepcopy(g).g) :
          Query("IG", <<>>, [self |-> g, err |-> i.err], [ig |-> i.ig])

\* one pass of `while len(self.bi_edges) > 0`: any edge can be the one popped
IGMerge ==
    /\ last.op \in {"IG", "merge"} /\ last.err = OK
    /\ nq <= MaxMerges
    /\ \E e \in last.ret.ig.gr.bi_edges :
          \E m \in merge(last.ret.ig, e[1], e[2]) :
             Query("merge", e, [self |-> g, err |-> m.err], [ig |-> m.ig])

\* the loop condition fails: return set(self.vertices)
IGReturn ==
    /\ last.op \in {"IG", "merge"} /\ last.err = OK
    /\ last.ret.ig.gr.bi_edges = {}
    /\ Query("IG.get_intrinsic_sets", <<>>, [self |-> g, err |-> OK],
             [ig |-> last.ret.ig, sets |-> last.ret.ig.gr.vertices])

NextIG ==
    \/ /\ cls = "none"
       /\ \E V \in VertexSets : \E di \in SUBSET DiPairs(V), bi \in SUBSET BiPairs(V) :
             Construct("ADMG", V, di, bi, {})
    \/ \E vs \in FixLists(g.vertices) : nops < MaxFixes /\ nq = 0 /\ Fix(vs)
    \/ IGNew
    \/ IGMerge
    \/ IGReturn

\* ENABLED <<IGMerge>>_vars as a state predicate: merge has an outcome for
\* every edge, and every outcome changes last
MergePending ==
    /\ last.op \in {"IG", "merge"} /\ last.err = OK
    /\ nq <= MaxMerges
    /\ last.ret.ig.gr.bi_edges # {}

\* SpecIG: the while loop runs on. The call returns once the loop condition
\* fails (weak fairness of IGReturn), and a pass that can be taken is taken:
\* the last conjunct is WF_vars(IGMerge) with ENABLED <<IGMerge>>_vars
\* written as MergePending
SpecIG ==
    /\ Init /\ [][NextIG]_vars
    /\ WF_vars(IGReturn)
    /\ ([]<>(~MergePending) \/ []<><<IGMerge>>_vars)

RECURSIVE ValidSequence(_, _, _)
ValidSequence(A, order, i) ==
    IF i > Len(order) THEN TRUE
    ELSE /\ order[i] \in A.vertices \ A.fixed
         /\ AbsFixable(A, order[i])
         /\ ValidSequence(AbsFix(A, order[i]), order, i + 1)

Renamings(V) == {p \in [V -> V] : \A u, v \in V : p[u] = p[v] => u = v}

RenamedEdges(p, edges) == {<<p[e[1]], p[e[2]]>> : e \in edges}

C30_NoTreatmentsIdentified ==
    (/\ last.op = "id"
     /\ last.ret.obj.treatments = <<>> /\ last.ret.obj.outcomes # <<>>
     /\ last.pre.fixed = {} /\ AbsAcyclic(Abs(last.pre))) =>
        (last.err = OK /\ last.ret.val = TRUE)

====
